---- MODULE Spec2Model ----
(***************************************************************************)
(* Model of the mesh scanner (src/mesh_idee/mesh_fake_ledger/meshscanner): *)
(* run_scan fans one task per (host, port) pair out under an               *)
(* asyncio.Semaphore; each task probes the port (check_port) and, when the *)
(* port is open, sniffs a banner (grab_http_banner / grab_raw_banner).     *)
(* Every action is one step of a coroutine between two suspension points.  *)
(***************************************************************************)
EXTENDS Integers, Sequences, FiniteSets, TLC

\* ------------------------------------------------------------------ bounds
\* width of an address in bits (IPv4 has 32)
AddrBits == 3
\* longest port list handed to run_scan
MaxPorts == 2
\* most (host, port) pairs of one scan
MaxPairs == 2
\* largest cfg.concurrency
MaxConcurrency == 2
\* largest cfg.max_hosts
MaxHostsCap == 2

\* the port numbers in a port string are 8 .. 8 + MaxPortSpan
MaxPortSpan == 3
\* most items (single ports or ranges) of a port string
MaxItems == 2

\* the store holds at most MaxRows rows
MaxRows == 3

\* a batch passed to save_results has at most MaxBatch results
MaxBatch == 2

\* the threads make at most MaxCalls calls on the ledger, all together
MaxCalls == 2

\* ------------------------------------------------------- program constants
banner_max_bytes == 2048

\* ports the scans are run on: 80 is an HTTP port, 22 is not
PortPool == {22, 80}
\* as HttpPorts, but only the two ports the comment of scanner.py line 29 names
HttpPorts_comment == {80, 443}

\* the ports sniffed with an HTTP request (scanner.py line 30)
HttpPorts == {80, 8080, 8000, 443}

\* Optional values: None, or a one-element tuple holding the value
None == << >>
Some(x) == << x >>

\* ------------------------------------------------------- network outcomes
\* what asyncio.wait_for(asyncio.open_connection(..), timeout) can do
ConnectOutcomes == {"established", "refused", "timeout", "unreachable", "protocol_error"}
\* what writer.close() / await writer.wait_closed() can do
CloseOutcomes == {"ok", "error"}
\* what writer.write() / await writer.drain() can do
SendOutcomes == {"ok", "error"}
\* the bytes a peer may have sent: nothing (EOF), or text around a byte that
\* is not valid UTF-8
PeerData == { << >>, <<72, 255, 84>> }
\* what asyncio.wait_for(reader.read(max_bytes), timeout) can do
ReadOutcomes == [kind : {"data"}, data : PeerData]
                  \cup [kind : {"timeout", "error"}, data : { << >> }]

\* ------------------------------------------------------------ pure helpers
RECURSIVE Pow2(_)
Pow2(n) == IF n <= 0 THEN 1 ELSE 2 * Pow2(n - 1)

Min(a, b) == IF a <= b THEN a ELSE b

Take(s, n) == SubSeq(s, 1, Min(n, Len(s)))

RECURSIVE Range(_, _)
\* the ascending sequence lo, lo+1, .., hi
Range(lo, hi) == IF lo > hi THEN << >> ELSE <<lo>> \o Range(lo + 1, hi)

\* as ip_network_ok, but nothing is rejected
ip_network_ok_any(c) == TRUE

\* ipaddress.ip_network(cidr, strict=False) accepts the range: the address
\* and the prefix length are in range; otherwise it raises ValueError
ip_network_ok(c) ==
    /\ c.addr \in 0..(Pow2(AddrBits) - 1)
    /\ c.prefix \in 0..AddrBits

\* as network_hosts, but the whole block is listed (the network is iterated
\* instead of network.hosts())
network_hosts_all(c) ==
    LET size == Pow2(AddrBits - c.prefix)
        net  == (c.addr \div size) * size
    IN  Range(net, net + size - 1)

\* ipaddress.ip_network(cidr, strict=False).hosts(): the host bits of the
\* address are masked away; a block of 4 or more addresses loses its network
\* and broadcast address, a block of 2 or 1 addresses keeps them all
network_hosts(c) ==
    LET size == Pow2(AddrBits - c.prefix)
        net  == (c.addr \div size) * size
    IN  IF size >= 4 THEN Range(net + 1, net + size - 2)
        ELSE Range(net, net + size - 1)

RECURSIVE expand_loop_off_by_one(_, _, _, _)
\* as expand_loop, but the loop stops one index too late (idx > max_hosts)
expand_loop_off_by_one(all, idx, max_hosts, result) ==
    IF idx >= Len(all) THEN result
    ELSE IF idx > max_hosts THEN result
    ELSE expand_loop_off_by_one(all, idx + 1, max_hosts, Append(result, all[idx + 1]))

RECURSIVE expand_loop(_, _, _, _)
\* the loop of expand_cidr: stop at the first index idx >= max_hosts
expand_loop(all, idx, max_hosts, result) ==
    IF idx >= Len(all) THEN result
    ELSE IF idx >= max_hosts THEN result
    ELSE expand_loop(all, idx + 1, max_hosts, Append(result, all[idx + 1]))

\* expand_cidr(cidr, max_hosts): the hosts of the block, capped at max_hosts
expand_cidr(c, max_hosts) == expand_loop(network_hosts(c), 0, max_hosts, << >>)

\* bytes.decode("utf-8", "ignore"): a byte below 128 is itself, a lone byte
\* of 128 or more is not valid UTF-8 and is dropped
decode(data) == SelectSeq(data, LAMBDA b : b < 128)

\* ------------------------------------------------------------- parse_ports
\* a string is a sequence of one-character strings
DigitChars == <<"0", "1", "2", "3", "4", "5", "6", "7", "8", "9">>

IsDigit(ch) == \E i \in 1..10 : DigitChars[i] = ch

DigitVal(ch) == (CHOOSE i \in 1..10 : DigitChars[i] = ch) - 1

RECURSIVE str(_)
\* str(n) of an integer n >= 0: its decimal digits
str(n) == IF n < 10 THEN <<DigitChars[n + 1]>>
          ELSE str(n \div 10) \o <<DigitChars[(n % 10) + 1]>>

\* the index of the first ch in s, 0 if there is none
Find(s, ch) ==
    IF \E i \in 1..Len(s) : s[i] = ch
    THEN CHOOSE i \in 1..Len(s) : s[i] = ch /\ \A j \in 1..(i - 1) : s[j] # ch
    ELSE 0

RECURSIVE split(_, _)
\* s.split(sep): the pieces between the separators, empty ones included
split(s, sep) ==
    LET i == Find(s, sep)
    IN  IF i = 0 THEN <<s>>
        ELSE <<SubSeq(s, 1, i - 1)>> \o split(SubSeq(s, i + 1, Len(s)), sep)

RECURSIVE strip(_)
\* s.strip(): s without the blanks at its ends
strip(s) ==
    IF s = << >> THEN s
    ELSE IF Head(s) = " " THEN strip(Tail(s))
    ELSE IF s[Len(s)] = " " THEN strip(SubSeq(s, 1, Len(s) - 1))
    ELSE s

RECURSIVE digits_value(_, _)
\* the value of a string of digits, read from the left
digits_value(s, acc) ==
    IF s = << >> THEN acc ELSE digits_value(Tail(s), 10 * acc + DigitVal(Head(s)))

\* int(s): blanks at the ends are ignored, a minus sign may lead, the rest
\* must be one or more digits; anything else raises ValueError
int(s) ==
    LET t    == strip(s)
        neg  == t # << >> /\ Head(t) = "-"
        body == IF neg THEN Tail(t) ELSE t
    IN  IF body # << >> /\ \A i \in 1..Len(body) : IsDigit(body[i])
        THEN [ok |-> TRUE,
              value |-> IF neg THEN 0 - digits_value(body, 0) ELSE digits_value(body, 0)]
        ELSE [ok |-> FALSE, value |-> 0]

\* as range_ports, but the end of the range is left out (range(start, end))
range_ports_exclusive(start, end) == Range(start, end - 1)

\* parse_ports line 29: range(start, end + 1)
range_ports(start, end) == Range(start, end)

\* parse_ports lines 25-32: the ports of one part, or ValueError
parse_part(part) ==
    LET i == Find(part, "-")
    IN  IF i # 0
        THEN LET start == int(SubSeq(part, 1, i - 1))
                 end   == int(SubSeq(part, i + 1, Len(part)))
             IN  IF start.ok /\ end.ok
                 THEN [ok |-> TRUE, value |-> range_ports(start.value, end.value)]
                 ELSE [ok |-> FALSE, value |-> << >>]
        ELSE LET n == int(part)
             IN  IF n.ok THEN [ok |-> TRUE, value |-> <<n.value>>]
                 ELSE [ok |-> FALSE, value |-> << >>]

RECURSIVE sorted(_)
\* sorted(set): the elements of a set of integers in ascending order
sorted(set) ==
    IF set = {} THEN << >>
    ELSE LET m == CHOOSE x \in set : \A y \in set : x <= y
         IN  <<m>> \o sorted(set \ {m})

RECURSIVE parse_loop(_, _)
\* parse_ports lines 24-32: the loop over the parts
parse_loop(parts, result) ==
    IF parts = << >> THEN [ok |-> TRUE, value |-> result]
    ELSE LET r == parse_part(Head(parts))
         IN  IF r.ok THEN parse_loop(Tail(parts), result \o r.value)
             ELSE [ok |-> FALSE, value |-> << >>]

\* parse_ports(ports_str): the stripped, non-empty parts between commas are
\* parsed, the ports are deduplicated and sorted
parse_ports(ports_str) ==
    LET pieces == split(ports_str, ",")
        parts  == SelectSeq([i \in 1..Len(pieces) |-> strip(pieces[i])],
                            LAMBDA q : q # << >>)
        r      == parse_loop(parts, << >>)
    IN  IF r.ok
        THEN [exc |-> "none",
              value |-> sorted({ r.value[i] : i \in 1..Len(r.value) })]
        ELSE [exc |-> "ValueError", value |-> << >>]

\* the port numbers written in port strings: one and two digits
PortNums == 8..(8 + MaxPortSpan)

\* the items of a port string: a single port, or a range lo-hi
PortItems == [range : {FALSE}, lo : PortNums, hi : {0}]
               \cup [range : {TRUE}, lo : PortNums, hi : PortNums]

\* an item as it is written
item_str(it) == IF it.range THEN str(it.lo) \o <<"-">> \o str(it.hi) ELSE str(it.lo)

RECURSIVE ports_str(_, _)
\* the port string of a list of items: the items joined by sep
ports_str(items, sep) ==
    IF items = << >> THEN << >>
    ELSE IF Len(items) = 1 THEN item_str(items[1])
    ELSE item_str(items[1]) \o sep \o ports_str(Tail(items), sep)

\* the separators between the items: a comma, with or without blanks
Separators == { <<",">>, <<" ", ",", " ">> }

\* ------------------------------------------------------- models.py, storage.py
\* a datetime is its second and its microsecond (the date, the hour and the
\* minute are the same in every timestamp and are left out of the text)
\* str(n) padded with zeros on the left to w characters
RECURSIVE zfill(_, _)
zfill(digits, w) == IF Len(digits) >= w THEN digits ELSE zfill(<<"0">> \o digits, w)

\* as isoformat, but the microseconds are never written (timespec = "seconds")
isoformat_seconds(dt) == zfill(str(dt.sec), 2)

\* datetime.isoformat(): SS, followed by .ffffff when the microsecond is not 0
isoformat(dt) ==
    IF dt.us = 0 THEN zfill(str(dt.sec), 2)
    ELSE zfill(str(dt.sec), 2) \o <<".">> \o zfill(str(dt.us), 6)

\* datetime.fromisoformat(text) for the texts isoformat writes
fromisoformat(text) ==
    [sec |-> digits_value(SubSeq(text, 1, 2), 0),
     us  |-> IF Len(text) > 2 THEN digits_value(SubSeq(text, 4, 9), 0) ELSE 0]

\* ScanResult.to_record (models.py lines 19-27): the timestamp becomes its
\* ISO text; a missing timestamp is replaced by the current time
to_record(r, now) ==
    [ip |-> r.ip, port |-> r.port, is_open |-> r.is_open, service |-> r.service,
     banner |-> r.banner,
     scanned_at |-> IF r.scanned_at = None THEN isoformat(now)
                    ELSE isoformat(r.scanned_at[1])]

\* the default of get_last_n's limit (line 64) and of the CLI's --limit
default_limit == 50

\* the store at a path where no database file exists yet
EmptyStore == [has_table |-> FALSE, rows |-> << >>, seq |-> 0]

\* as SCHEMA, but a plain CREATE TABLE: it fails when the table exists
SCHEMA_plain_create(d) ==
    IF d.has_table THEN [exc |-> "OperationalError", db |-> d]
    ELSE [exc |-> "none", db |-> [d EXCEPT !.has_table = TRUE]]

\* storage.py lines 12-25: CREATE TABLE IF NOT EXISTS scans
SCHEMA(d) == [exc |-> "none", db |-> [d EXCEPT !.has_table = TRUE]]

\* init_db (lines 28-35): run the schema script, commit, close
init_db(d) == SCHEMA(d)

\* sqlite3.connect: the committed database and the connection's view of it
connect(d) == [committed |-> d, work |-> d]

\* conn.commit(): the connection's changes become the committed database
commit(conn) == [conn EXCEPT !.committed = conn.work]

\* as close, but what the connection had written stays in the database (the
\* statements were not inside of one transaction)
close_autocommit(conn) == conn.work

\* conn.close(): an open transaction is rolled back; the database is what
\* was committed
close(conn) == conn.committed

\* the INSERT of save_results (lines 45-58): AUTOINCREMENT gives the next id,
\* is_open is stored as 1 or 0; without the table the statement fails
insert(conn, rec) ==
    IF ~conn.work.has_table THEN [exc |-> "OperationalError", conn |-> conn]
    ELSE [exc |-> "none",
          conn |-> [conn EXCEPT
              !.work.seq = @ + 1,
              !.work.rows = Append(@,
                  [id |-> conn.work.seq + 1, ip |-> rec.ip, port |-> rec.port,
                   is_open |-> IF rec.is_open THEN 1 ELSE 0,
                   service |-> rec.service, banner |-> rec.banner,
                   scanned_at |-> rec.scanned_at])]]

RECURSIVE insert_loop(_, _, _, _, _)
\* save_results lines 43-58 from the k-th result on; the statement numbered
\* failAt fails in the database (disk full, database locked, ...)
insert_loop(conn, batch, k, now, failAt) ==
    IF k > Len(batch) THEN [exc |-> "none", conn |-> conn]
    ELSE IF failAt = k THEN [exc |-> "OperationalError", conn |-> conn]
    ELSE LET r == insert(conn, to_record(batch[k], now))
         IN  IF r.exc # "none" THEN r
             ELSE insert_loop(r.conn, batch, k + 1, now, failAt)

\* save_results (lines 38-61): BEGIN, one INSERT per result, commit; the
\* finally block closes the connection on every path; failAt = Len(batch) + 1
\* is a failing commit, failAt = 0 is no failure
save_results(d, batch, now, failAt) ==
    LET r == insert_loop(connect(d), batch, 1, now, failAt)
    IN  IF r.exc # "none" THEN [exc |-> r.exc, db |-> close(r.conn)]
        ELSE IF failAt = Len(batch) + 1
        THEN [exc |-> "OperationalError", db |-> close(r.conn)]
        ELSE [exc |-> "none", db |-> close(commit(r.conn))]

RECURSIVE order_by_id_asc(_)
\* as order_by_id_desc, but ascending
order_by_id_asc(rows) ==
    IF rows = {} THEN << >>
    ELSE LET m == CHOOSE x \in rows : \A y \in rows : x.id <= y.id
         IN  <<m>> \o order_by_id_asc(rows \ {m})

RECURSIVE order_by_id_desc(_)
\* ORDER BY id DESC (line 72) of a set of rows
order_by_id_desc(rows) ==
    IF rows = {} THEN << >>
    ELSE LET m == CHOOSE x \in rows : \A y \in rows : x.id >= y.id
         IN  <<m>> \o order_by_id_desc(rows \ {m})

\* bool(is_open) (line 94)
bool(n) == n # 0

\* get_last_n lines 82-99: the ScanResult of a row
from_row(row) ==
    [ip |-> row.ip, port |-> row.port, is_open |-> bool(row.is_open),
     service |-> row.service, banner |-> row.banner,
     scanned_at |-> Some(fromisoformat(row.scanned_at))]

\* LIMIT ? (line 73): a negative limit is no limit
sql_limit(rows, limit) == IF limit < 0 THEN rows ELSE Take(rows, limit)

\* get_last_n (lines 64-100)
get_last_n(d, limit) ==
    IF ~d.has_table THEN [exc |-> "OperationalError", out |-> << >>]
    ELSE LET rows == sql_limit(order_by_id_desc({ d.rows[i] : i \in 1..Len(d.rows) }),
                               limit)
         IN  [exc |-> "none", out |-> [i \in 1..Len(rows) |-> from_row(rows[i])]]

\* ------------------------------------------------------- ledger_store.py
\* a ledger state is its accounts (account id -> balance) and its transfers
\* (payer, receiver, amount); creation times, transfer ids and timestamps are
\* values of the clock and of uuid4 that no operation reads
create_empty_state == [accounts |-> [a \in {} |-> 0], transfers |-> << >>]

\* account_id in state["accounts"]
has_account(state, account_id) == account_id \in DOMAIN state.accounts

\* ensure_account (lines 98-116)
ensure_account(state, account_id, initial_balance) ==
    IF has_account(state, account_id) THEN state
    ELSE [state EXCEPT !.accounts = (account_id :> initial_balance) @@ @]

\* get_balance (lines 119-136)
get_balance(state, account_id) ==
    IF ~has_account(state, account_id)
    THEN [exc |-> "AccountNotFoundError", value |-> 0]
    ELSE [exc |-> "none", value |-> state.accounts[account_id]]

\* can_pay (lines 139-155)
can_pay(state, payer_id, amount) ==
    LET b == get_balance(state, payer_id)
    IN  IF b.exc # "none" THEN FALSE ELSE b.value >= amount

\* the record transfer appends (lines 206-214)
TransferRecord(payer_id, receiver_id, amount) ==
    [from_account |-> payer_id, to_account |-> receiver_id, amount |-> amount]

\* as execute_transfer, but the payer is not debited
execute_transfer_no_debit(state, payer_id, receiver_id, amount) ==
    [accounts |-> [state.accounts EXCEPT ![receiver_id] = @ + amount],
     transfers |-> Append(state.transfers,
                          TransferRecord(payer_id, receiver_id, amount))]

\* the transfer itself (lines 201-217)
execute_transfer(state, payer_id, receiver_id, amount) ==
    LET debited  == [state.accounts EXCEPT ![payer_id] = @ - amount]
        credited == [debited EXCEPT ![receiver_id] = @ + amount]
    IN  [accounts |-> credited,
         transfers |-> Append(state.transfers,
                              TransferRecord(payer_id, receiver_id, amount))]

\* as transfer, but without the balance test
transfer_no_balance_test(state, payer_id, receiver_id, amount) ==
    IF amount <= 0 THEN [exc |-> "ValueError", state |-> state]
    ELSE IF ~has_account(state, payer_id) \/ ~has_account(state, receiver_id)
    THEN [exc |-> "AccountNotFoundError", state |-> state]
    ELSE [exc |-> "none",
          state |-> execute_transfer(state, payer_id, receiver_id, amount)]

\* transfer (lines 158-219)
transfer(state, payer_id, receiver_id, amount) ==
    IF amount <= 0 THEN [exc |-> "ValueError", state |-> state]
    ELSE IF ~has_account(state, payer_id) \/ ~has_account(state, receiver_id)
    THEN [exc |-> "AccountNotFoundError", state |-> state]
    ELSE IF state.accounts[payer_id] < amount
    THEN [exc |-> "InsufficientBalanceError", state |-> state]
    ELSE [exc |-> "none",
          state |-> execute_transfer(state, payer_id, receiver_id, amount)]

\* ----------------------------------------------------- ledger_service.py
\* LedgerConfig.default_provider_account (line 33)
default_provider_account == "mesh_provider"

\* credit's system account (line 172)
system_account == "system"

\* the balance credit gives the system account (lines 177, 185): 10**18 in
\* the code, here 10^9, the largest power of ten the checker's integers
\* hold; every amount of the model is far below both
system_balance == 1000000000

\* what a method of LedgerService does under its lock: the state it leaves
\* in memory, the exception it raises, the value it returns, and whether
\* _save() was reached
Outcome(mem, exc, value, save) ==
    [mem |-> mem, exc |-> exc, value |-> value, save |-> save]

\* create_account_if_missing (lines 81-86)
create_account_if_missing(mem, account_id, initial_balance) ==
    LET existed == has_account(mem, account_id)
    IN  Outcome(ensure_account(mem, account_id, initial_balance), "none",
                ~existed, ~existed)

\* LedgerService.get_balance (lines 101-102)
service_get_balance(mem, account_id) ==
    LET b == get_balance(mem, account_id)
    IN  Outcome(mem, b.exc, b.value, FALSE)

\* require_balance (lines 115-116)
require_balance(mem, payer_id, amount) ==
    Outcome(mem, "none", can_pay(mem, payer_id, amount), FALSE)

\* charge (lines 143-151): the accounts are created before transfer runs;
\* an exception of transfer leaves the method before _save()
charge(mem, auto_create_accounts, payer_id, receiver_id, amount) ==
    LET m == IF auto_create_accounts
             THEN ensure_account(ensure_account(mem, payer_id, 0), receiver_id, 0)
             ELSE mem
        r == transfer(m, payer_id, receiver_id, amount)
    IN  IF r.exc # "none" THEN Outcome(m, r.exc, 0, FALSE)
        ELSE Outcome(r.state, "none", 0, TRUE)

\* credit (lines 172-189)
credit(mem, auto_create_accounts, account_id, amount) ==
    LET m1 == ensure_account(mem, system_account, system_balance)
        m2 == IF auto_create_accounts THEN ensure_account(m1, account_id, 0) ELSE m1
        m3 == IF m2.accounts[system_account] < amount
              THEN [m2 EXCEPT !.accounts[system_account] = system_balance]
              ELSE m2
        r  == transfer(m3, system_account, account_id, amount)
    IN  IF r.exc # "none" THEN Outcome(m3, r.exc, 0, FALSE)
        ELSE Outcome(r.state, "none", 0, TRUE)

\* a call of a method of LedgerService: its name and its arguments
ServiceCall(name, a, b, n) == [name |-> name, a |-> a, b |-> b, n |-> n]

\* the method a call names, run on the state in memory
run_call(mem, auto_create_accounts, c) ==
    CASE c.name = "create_account_if_missing" ->
             create_account_if_missing(mem, c.a, c.n)
      [] c.name = "get_balance"     -> service_get_balance(mem, c.a)
      [] c.name = "require_balance" -> require_balance(mem, c.a, c.n)
      [] c.name = "charge"          -> charge(mem, auto_create_accounts, c.a, c.b, c.n)
      [] c.name = "credit"          -> credit(mem, auto_create_accounts, c.a, c.n)

\* ------------------------------------------------------------------- state
VARIABLES
    cidr,          \* run_scan argument: [addr, prefix]
    ports,         \* run_scan argument: the port list
    cfg,           \* run_scan argument: ScannerConfig
    rs_pc,         \* where run_scan is: "start", "collecting", "returned", "raised"
    rs_exc,        \* the exception run_scan raised, or "none"
    hosts,         \* run_scan local: the expanded host list
    sem_value,     \* Semaphore._value
    sem_waiters,   \* Semaphore._waiters: the tasks blocked in acquire, oldest first
    sem_woken,     \* the waiters whose future was set by _wake_up_next, not yet resumed
    tasks,         \* run_scan local: task id -> the coroutine's state
    completed,     \* the finished tasks as_completed has not yielded yet, oldest first
    collected,     \* the tasks whose results run_scan has appended, in that order
    results,       \* run_scan local: the ScanResults
    pp,            \* a call of parse_ports: its argument, its position, its result
    db,            \* the database file: the scans table and its AUTOINCREMENT counter
    call,          \* the last call on the store: its arguments and its outcome
    ledger_file,   \* the ledger's JSON file: whether it exists, the state it holds
    services,      \* the LedgerService objects: the state in memory, the lock
    threads,       \* the threads calling a LedgerService: the call under way
    history,       \* the calls LedgerService has run, in the order of the lock
    job            \* a /scan-jobs request: where its handler is, its response

\* the variables of a scan
scanvars == <<cidr, ports, cfg, rs_pc, rs_exc, hosts, sem_value, sem_waiters,
              sem_woken, tasks, completed, collected, results>>

\* the variables outside of a scan
\* the variables of the ledger
ledgervars == <<ledger_file, services, threads, history>>

othervars == <<pp, db, call, ledgervars, job>>

vars == <<scanvars, othervars>>

\* the task ids: one per (host, port) pair, in creation order (host-major)
TaskIds == DOMAIN tasks

\* ------------------------------------------------- asyncio.Semaphore (3.11)
\* as locked, but the gate never closes
locked_never == FALSE

\* Semaphore.locked(): no free slot, or some waiter is still queued
locked == sem_value = 0 \/ Len(sem_waiters) > 0

\* the waiters whose future is not done yet, oldest first
NotWoken(waiters, woken) == SelectSeq(waiters, LAMBDA w : w \notin woken)

\* Semaphore._wake_up_next(): hand one slot to the oldest waiter not yet woken
wake_up_next(value, waiters, woken) ==
    LET cand == NotWoken(waiters, woken)
    IN  IF cand = << >> THEN [value |-> value, woken |-> woken]
        ELSE [value |-> value - 1, woken |-> woken \cup {Head(cand)}]

\* as release, but no waiter is woken
release_no_wake(value, waiters, woken) == [value |-> value + 1, woken |-> woken]

\* as release, but the slot is not given back
release_lost(value, waiters, woken) == wake_up_next(value, waiters, woken)

\* Semaphore.release(): give the slot back, then wake the next waiter
release(value, waiters, woken) == wake_up_next(value + 1, waiters, woken)

\* --------------------------------------------------------- the coroutines
\* the outcome of one stage of a coroutine: it goes on ("continue"), it
\* returns value ("return"), or exception exc escapes from it ("raise")
Step(kind, value, exc) == [kind |-> kind, value |-> value, exc |-> exc]

\* as check_port_connect, but without the outer except: the failure escapes
check_port_connect_uncaught(o) ==
    IF o = "established" THEN Step("continue", TRUE, "none")
    ELSE Step("raise", FALSE, o)

\* check_port up to the connect: any exception of the connect is caught by
\* the outer except and becomes False
check_port_connect(o) ==
    IF o = "established" THEN Step("continue", TRUE, "none")
    ELSE Step("return", FALSE, "none")

\* as check_port_close, but without the inner except: a close error reaches
\* the outer except and the verdict is False
check_port_close_uncaught(c) ==
    IF c = "ok" THEN Step("return", TRUE, "none") ELSE Step("return", FALSE, "none")

\* check_port after the connect: an exception of close / wait_closed is
\* swallowed by the inner except, the verdict is True
check_port_close(c) == Step("return", TRUE, "none")

\* the service label and sniff policy of a port (scanner.py line 30)
is_http_port(port) == port \in HttpPorts

service_label(port) == IF is_http_port(port) THEN "http" ELSE "unknown"

\* grab_http_banner up to the connect
grab_http_banner_connect(o) ==
    IF o = "established" THEN Step("continue", None, "none")
    ELSE Step("return", None, "none")

\* grab_http_banner: write + drain; an exception goes to except, then finally
grab_http_banner_send(s) ==
    IF s = "ok" THEN Step("continue", None, "none")
    ELSE Step("return", None, "none")

\* as grab_http_banner_read, but without the "if not data" test
grab_http_banner_read_no_empty_test(r, max_bytes) ==
    IF r.kind = "data"
    THEN Step("return", Some(decode(Take(r.data, max_bytes))), "none")
    ELSE Step("return", None, "none")

\* grab_http_banner: the read, decoded; nothing read, a timeout or an error
\* give None
grab_http_banner_read(r, max_bytes) ==
    IF r.kind = "data"
    THEN LET data == Take(r.data, max_bytes)
         IN  IF data = << >> THEN Step("return", None, "none")
             ELSE Step("return", Some(decode(data)), "none")
    ELSE Step("return", None, "none")

\* grab_http_banner: the finally block; close errors are swallowed and the
\* pending return value is returned
grab_http_banner_close(c, pending) == Step("return", pending, "none")

\* grab_raw_banner up to the connect
grab_raw_banner_connect(o) ==
    IF o = "established" THEN Step("continue", None, "none")
    ELSE Step("return", None, "none")

\* as grab_raw_banner_read, but a timeout or error of the read escapes
grab_raw_banner_read_uncaught(r, max_bytes) ==
    IF r.kind = "data"
    THEN LET data == Take(r.data, max_bytes)
         IN  IF data = << >> THEN Step("return", None, "none")
             ELSE Step("return", Some(decode(data)), "none")
    ELSE Step("raise", None, r.kind)

\* grab_raw_banner: the read
grab_raw_banner_read(r, max_bytes) ==
    IF r.kind = "data"
    THEN LET data == Take(r.data, max_bytes)
         IN  IF data = << >> THEN Step("return", None, "none")
             ELSE Step("return", Some(decode(data)), "none")
    ELSE Step("return", None, "none")

\* grab_raw_banner: the finally block
grab_raw_banner_close(c, pending) == Step("return", pending, "none")

\* the ScanResult a task returns (scanner.py lines 47-54)
ScanResult(ip, port, is_open, service, banner, scanned_at) ==
    [ip |-> ip, port |-> port, is_open |-> is_open, service |-> service,
     banner |-> banner, scanned_at |-> scanned_at]

\* datetime.utcnow(): the k-th reading of the clock; the readings grow, some
\* fall on a whole second and some do not
utcnow(k) == [sec |-> 5 + (k \div 2), us |-> IF k % 2 = 0 THEN 0 ELSE 7]

\* the first readings of the clock: one without and one with microseconds
ClockReadings == { utcnow(0), utcnow(1) }

\* a task as asyncio.create_task leaves it: not started
NewTask(host, port) ==
    [host |-> host, port |-> port, pc |-> "created", is_open |-> FALSE,
     service |-> None, banner |-> None, pending |-> None, exc |-> "none",
     result |-> None, probe |-> "none", sniff |-> "none", conns |-> 0,
     sent |-> FALSE, probes |-> 0, sniffs |-> 0, reads |-> 0]

\* as make_tasks, but the port list is consumed by the first host (a
\* one-shot iterator): the later hosts get no task
make_tasks_first_host(hs, ps) ==
    [t \in 1..(Min(Len(hs), 1) * Len(ps)) |->
        NewTask(hs[((t - 1) \div Len(ps)) + 1], ps[((t - 1) % Len(ps)) + 1])]

\* the task list run_scan builds (lines 65-68): hosts outer, ports inner
make_tasks(hs, ps) ==
    [t \in 1..(Len(hs) * Len(ps)) |->
        NewTask(hs[((t - 1) \div Len(ps)) + 1], ps[((t - 1) % Len(ps)) + 1])]

\* ----------------------------------------------------------------- inputs
\* the port lists: every ascending list over PortPool of at most MaxPorts
\* ports, repeated ports included (the /scan-jobs handler passes req.ports as is)
PortLists ==
    { ps \in UNION { [1..n -> PortPool] : n \in 0..MaxPorts } :
        \A i \in 1..(Len(ps) - 1) : ps[i] <= ps[i + 1] }

\* the range scanned: a block of 4 addresses, given by its second address
ScanCidrs == { [addr |-> 1, prefix |-> AddrBits - 2] }

Configs == [max_hosts : 0..MaxHostsCap, concurrency : (-1)..MaxConcurrency,
            banner_max_bytes : {banner_max_bytes}]

\* no call of parse_ports is under way
PortsIdle == pp = [pc |-> "idle", items |-> << >>, arg |-> << >>, out |-> << >>,
                   exc |-> "none"]

\* no call on the store has been made
NoCall == [op |-> "none", exc |-> "none", before |-> EmptyStore, batch |-> << >>,
           limit |-> 0, out |-> << >>]

\* the ledger file does not exist
NoFile == [exists |-> FALSE, state |-> create_empty_state]

\* no ledger is in use
LedgerIdle ==
    /\ ledger_file = NoFile
    /\ services = << >>
    /\ threads = << >>
    /\ history = << >>

\* no /scan-jobs request is handled
NoJob == [pc |-> "none", status |-> 0, cost |-> 0, account |-> "-"]

\* cmd_scan lines 40-50: the ports are parsed and the store is initialised
\* before run_scan is called
OthersIdle ==
    /\ PortsIdle
    /\ db = init_db(EmptyStore).db
    /\ call = NoCall
    /\ LedgerIdle
    /\ job = NoJob

\* run_scan has been called and has not run yet
ScanNotStarted ==
    /\ rs_pc = "start"
    /\ rs_exc = "none"
    /\ hosts = << >>
    /\ sem_value = 0
    /\ sem_waiters = << >>
    /\ sem_woken = {}
    /\ tasks = << >>
    /\ completed = << >>
    /\ collected = << >>
    /\ results = << >>

Init ==
    /\ cidr \in ScanCidrs
    /\ ports \in PortLists
    /\ cfg \in Configs
    /\ Len(expand_cidr(cidr, cfg.max_hosts)) * Len(ports) <= MaxPairs
    /\ ScanNotStarted
    /\ OthersIdle

\* ---------------------------------------------------------------- run_scan
\* as all_collected, but the loop ends with the first result
all_collected_first(res, ts) == Len(res) >= Min(1, Len(ts))

\* the loop over as_completed(tasks) ends once it has yielded every task
all_collected(res, ts) == Len(res) = Len(ts)

\* run_scan lines 62-70: expand the range (a range ip_network rejects raises
\* ValueError out of expand_cidr), build the semaphore (a negative value
\* raises ValueError), create the tasks; with no task the loop over
\* as_completed is empty and run_scan returns at once
RunScanStart ==
    /\ rs_pc = "start"
    /\ hosts' = IF ip_network_ok(cidr) THEN expand_cidr(cidr, cfg.max_hosts) ELSE hosts
    /\ IF ~ip_network_ok(cidr) \/ cfg.concurrency < 0
       THEN /\ rs_pc' = "raised"
            /\ rs_exc' = "ValueError"
            /\ UNCHANGED <<sem_value, tasks>>
       ELSE /\ sem_value' = cfg.concurrency
            /\ tasks' = make_tasks(hosts', ports)
            /\ rs_pc' = IF all_collected(results, tasks')
                        THEN "returned" ELSE "collecting"
            /\ UNCHANGED rs_exc
    /\ UNCHANGED <<cidr, ports, cfg, sem_waiters, sem_woken, completed,
                   collected, results,
                   othervars>>

\* run_scan lines 71-74: await the next finished task; its exception, if
\* any, escapes from run_scan; after the last result run_scan returns
RunScanCollect ==
    /\ rs_pc = "collecting"
    /\ completed # << >>
    /\ LET t == Head(completed)
       IN  /\ completed' = Tail(completed)
           /\ IF tasks[t].exc # "none"
              THEN /\ rs_pc' = "raised"
                   /\ rs_exc' = tasks[t].exc
                   /\ UNCHANGED <<collected, results>>
              ELSE /\ results' = Append(results, tasks[t].result[1])
                   /\ collected' = Append(collected, t)
                   /\ rs_pc' = IF all_collected(results', tasks)
                               THEN "returned" ELSE "collecting"
                   /\ UNCHANGED rs_exc
    /\ UNCHANGED <<cidr, ports, cfg, hosts, sem_value, sem_waiters, sem_woken,
                   tasks,
                   othervars>>

\* ---------------------------------------------------------- _scan_host_port
\* the task leaves "async with sem" and finishes: the slot is released
\* (also when an exception escapes), the task is done and as_completed sees it
Finish(t, rec) ==
    LET rel == release(sem_value, sem_waiters, sem_woken)
    IN  /\ tasks' = [tasks EXCEPT ![t] = [rec EXCEPT !.pc = "done"]]
        /\ sem_value' = rel.value
        /\ sem_woken' = rel.woken
        /\ completed' = Append(completed, t)
        /\ UNCHANGED <<cidr, ports, cfg, rs_pc, rs_exc, hosts, sem_waiters,
                       collected, results,
                   othervars>>

\* the task returns its ScanResult (lines 47-54), stamped with the clock's
\* reading: the clock has been read once by every task that is done
Return(t, rec) ==
    LET now == utcnow(Cardinality({ u \in TaskIds : tasks[u].pc = "done" }))
    IN  Finish(t, [rec EXCEPT !.result =
            Some(ScanResult(rec.host, rec.port, rec.is_open, rec.service,
                            rec.banner, Some(now)))])

\* an exception escapes from the task
Raise(t, rec, exc) == Finish(t, [rec EXCEPT !.exc = exc])

\* the task only moves to its next suspension point
Goto(t, rec, pc) ==
    /\ tasks' = [tasks EXCEPT ![t] = [rec EXCEPT !.pc = pc]]
    /\ UNCHANGED <<cidr, ports, cfg, rs_pc, rs_exc, hosts, sem_value,
                   sem_waiters, sem_woken, completed, collected, results,
                   othervars>>

\* line 22, Semaphore.acquire(): take a free slot, or queue behind the waiters
TaskStart(t) ==
    /\ tasks[t].pc = "created"
    /\ IF ~locked
       THEN /\ sem_value' = sem_value - 1
            /\ tasks' = [tasks EXCEPT ![t].pc = "probe_connect"]
            /\ UNCHANGED sem_waiters
       ELSE /\ sem_waiters' = Append(sem_waiters, t)
            /\ tasks' = [tasks EXCEPT ![t].pc = "waiting"]
            /\ UNCHANGED sem_value
    /\ UNCHANGED <<cidr, ports, cfg, rs_pc, rs_exc, hosts, sem_woken,
                   completed, collected, results,
                   othervars>>

\* Semaphore.acquire() after "await fut": the woken waiter leaves the queue
\* and, if a slot is still free, wakes the next waiter; the probe starts
AcquireResume(t) ==
    /\ tasks[t].pc = "waiting"
    /\ t \in sem_woken
    /\ LET waiters == SelectSeq(sem_waiters, LAMBDA w : w # t)
           woken   == sem_woken \ {t}
           nxt     == IF sem_value > 0
                      THEN wake_up_next(sem_value, waiters, woken)
                      ELSE [value |-> sem_value, woken |-> woken]
       IN  /\ sem_waiters' = waiters
           /\ sem_value' = nxt.value
           /\ sem_woken' = nxt.woken
    /\ tasks' = [tasks EXCEPT ![t].pc = "probe_connect"]
    /\ UNCHANGED <<cidr, ports, cfg, rs_pc, rs_exc, hosts, completed,
                   collected, results,
                   othervars>>

\* lines 28-45 up to the sniff's first await: label the service, start the sniff
StartSniff(t, rec) ==
    Goto(t, [rec EXCEPT !.is_open = TRUE, !.service = Some(service_label(rec.port))],
         "sniff_connect")

\* as AfterProbe, but the sniff is started whatever the probe returned
AfterProbe_always_sniff(t, rec, v) ==
    Goto(t, [rec EXCEPT !.is_open = v, !.service = Some(service_label(rec.port))],
         "sniff_connect")

\* lines 23-28 once check_port has returned v
AfterProbe(t, rec, v) ==
    IF v THEN StartSniff(t, rec)
    ELSE Return(t, [rec EXCEPT !.is_open = FALSE])

\* as ProbeConnect, but a connect that fails is tried a second time
ProbeConnect_retry(t, o) ==
    /\ tasks[t].pc = "probe_connect"
    /\ LET rec == [tasks[t] EXCEPT
                       !.probe = IF o = "established" THEN "established" ELSE "failed",
                       !.conns = IF o = "established" THEN @ + 1 ELSE @,
                       !.probes = @ + 1]
           st  == check_port_connect(o)
       IN  CASE st.kind = "continue" -> Goto(t, rec, "probe_close")
             [] st.kind = "return"   ->
                    IF tasks[t].probes = 0 THEN Goto(t, rec, "probe_connect")
                    ELSE AfterProbe(t, rec, st.value)
             [] st.kind = "raise"    -> Raise(t, rec, st.exc)

\* line 23, check_port: the connect attempt ends with outcome o
ProbeConnect(t, o) ==
    /\ tasks[t].pc = "probe_connect"
    /\ LET rec == [tasks[t] EXCEPT
                       !.probe = IF o = "established" THEN "established" ELSE "failed",
                       !.conns = IF o = "established" THEN @ + 1 ELSE @,
                       !.probes = @ + 1]
           st  == check_port_connect(o)
       IN  CASE st.kind = "continue" -> Goto(t, rec, "probe_close")
             [] st.kind = "return"   -> AfterProbe(t, rec, st.value)
             [] st.kind = "raise"    -> Raise(t, rec, st.exc)

\* as ProbeClose, but the probe's connection is left to the sniff
ProbeClose_not_closed(t, c) ==
    /\ tasks[t].pc = "probe_close"
    /\ LET rec == tasks[t]
           st  == check_port_close(c)
       IN  CASE st.kind = "return" -> AfterProbe(t, rec, st.value)
             [] st.kind = "raise"  -> Raise(t, rec, st.exc)

\* line 23, check_port: close / wait_closed of the probe connection ends;
\* writer.close() has closed the transport even when wait_closed() raises
ProbeClose(t, c) ==
    /\ tasks[t].pc = "probe_close"
    /\ LET rec == [tasks[t] EXCEPT !.conns = @ - 1]
           st  == check_port_close(c)
       IN  CASE st.kind = "return" -> AfterProbe(t, rec, st.value)
             [] st.kind = "raise"  -> Raise(t, rec, st.exc)

\* as AfterSniff, but the label is kept only when the sniff gave a banner
AfterSniff_label_with_banner(t, rec, b) ==
    Return(t, [rec EXCEPT !.banner = b, !.pending = None,
                          !.service = IF b = None THEN None ELSE @])

\* lines 32-45 once the sniff has returned banner b
AfterSniff(t, rec, b) == Return(t, [rec EXCEPT !.banner = b, !.pending = None])

\* lines 32 / 40: the sniff's connect attempt ends with outcome o
SniffConnect(t, o) ==
    /\ tasks[t].pc = "sniff_connect"
    /\ LET http == is_http_port(tasks[t].port)
           rec  == [tasks[t] EXCEPT
                        !.sniff = IF o = "established" THEN "connected" ELSE "failed",
                        !.conns = IF o = "established" THEN @ + 1 ELSE @,
                        !.sniffs = @ + 1]
           st   == IF http THEN grab_http_banner_connect(o)
                   ELSE grab_raw_banner_connect(o)
       IN  CASE st.kind = "continue" ->
                    Goto(t, rec, IF http THEN "sniff_send" ELSE "sniff_read")
             [] st.kind = "return"   -> AfterSniff(t, rec, st.value)
             [] st.kind = "raise"    -> Raise(t, rec, st.exc)

\* grab_http_banner lines 30-32: the request is written and drained
SniffSend(t, s) ==
    /\ tasks[t].pc = "sniff_send"
    /\ LET rec == [tasks[t] EXCEPT !.sniff = IF s = "ok" THEN "sent" ELSE "failed",
                                    !.sent = (s = "ok")]
           st  == grab_http_banner_send(s)
       IN  CASE st.kind = "continue" -> Goto(t, rec, "sniff_read")
             [] st.kind = "return"   ->
                    Goto(t, [rec EXCEPT !.pending = st.value], "sniff_close")
             [] st.kind = "raise"    -> Raise(t, rec, st.exc)

\* as SniffRead, but without the finally block: after a failed read the
\* sniff returns at once and nothing closes its connection
SniffRead_no_finally(t, r) ==
    /\ tasks[t].pc = "sniff_read"
    /\ LET rec == [tasks[t] EXCEPT !.sniff =
                       IF r.kind # "data" THEN "failed"
                       ELSE IF r.data = << >> THEN "empty" ELSE "data",
                                    !.reads = @ + 1]
           st  == IF is_http_port(tasks[t].port)
                  THEN grab_http_banner_read(r, cfg.banner_max_bytes)
                  ELSE grab_raw_banner_read(r, cfg.banner_max_bytes)
       IN  IF r.kind # "data"
           THEN Return(t, [rec EXCEPT !.banner = st.value])
           ELSE Goto(t, [rec EXCEPT !.pending = st.value], "sniff_close")

\* grab_http_banner lines 34-43, grab_raw_banner lines 71-80: the read ends
SniffRead(t, r) ==
    /\ tasks[t].pc = "sniff_read"
    /\ LET rec == [tasks[t] EXCEPT !.sniff =
                       IF r.kind # "data" THEN "failed"
                       ELSE IF r.data = << >> THEN "empty" ELSE "data",
                                    !.reads = @ + 1]
           st  == IF is_http_port(tasks[t].port)
                  THEN grab_http_banner_read(r, cfg.banner_max_bytes)
                  ELSE grab_raw_banner_read(r, cfg.banner_max_bytes)
       IN  CASE st.kind = "return" ->
                    Goto(t, [rec EXCEPT !.pending = st.value], "sniff_close")
             [] st.kind = "raise"  -> Raise(t, rec, st.exc)

\* the finally block of the sniff: close / wait_closed ends, the sniff returns
SniffClose(t, c) ==
    /\ tasks[t].pc = "sniff_close"
    /\ LET rec == [tasks[t] EXCEPT !.conns = @ - 1]
           st  == IF is_http_port(rec.port)
                  THEN grab_http_banner_close(c, rec.pending)
                  ELSE grab_raw_banner_close(c, rec.pending)
       IN  CASE st.kind = "return" -> AfterSniff(t, rec, st.value)
             [] st.kind = "raise"  -> Raise(t, rec, st.exc)

\* as CmdScanSave, but the results collected so far are saved while the scan
\* is still collecting
CmdScanSave_while_collecting(now, failAt) ==
    /\ rs_pc \in {"collecting", "returned"}
    /\ call.op = "none"
    /\ failAt <= Len(results) + 1
    /\ LET r == save_results(db, results, now, failAt)
       IN  /\ db' = r.db
           /\ call' = [op |-> "save_results", exc |-> r.exc, before |-> db,
                       batch |-> results, limit |-> 0, out |-> << >>]
    /\ UNCHANGED <<scanvars, pp, ledgervars, job>>

\* cmd_scan line 56: run_scan has returned and its results are saved as one
\* batch; the statement numbered failAt fails
CmdScanSave(now, failAt) ==
    /\ rs_pc = "returned"
    /\ call.op = "none"
    /\ failAt <= Len(results) + 1
    /\ LET r == save_results(db, results, now, failAt)
       IN  /\ db' = r.db
           /\ call' = [op |-> "save_results", exc |-> r.exc, before |-> db,
                       batch |-> results, limit |-> 0, out |-> << >>]
    /\ UNCHANGED <<scanvars, pp, ledgervars, job>>

\* cmd_last (lines 62-65): the saved results are read with the default limit
CmdLast ==
    /\ rs_pc = "returned"
    /\ call.op = "save_results"
    /\ LET r == get_last_n(db, default_limit)
       IN  call' = [op |-> "get_last_n", exc |-> r.exc, before |-> db,
                   batch |-> call.batch, limit |-> default_limit, out |-> r.out]
    /\ UNCHANGED <<scanvars, pp, db, ledgervars, job>>

Next ==
    \/ RunScanStart
    \/ RunScanCollect
    \/ \E t \in TaskIds : TaskStart(t)
    \/ \E t \in TaskIds : AcquireResume(t)
    \/ \E t \in TaskIds : \E o \in ConnectOutcomes : ProbeConnect(t, o)
    \/ \E t \in TaskIds : \E c \in CloseOutcomes : ProbeClose(t, c)
    \/ \E t \in TaskIds : \E o \in ConnectOutcomes : SniffConnect(t, o)
    \/ \E t \in TaskIds : \E s \in SendOutcomes : SniffSend(t, s)
    \/ \E t \in TaskIds : \E r \in ReadOutcomes : SniffRead(t, r)
    \/ \E t \in TaskIds : \E c \in CloseOutcomes : SniffClose(t, c)

Spec == Init /\ [][Next]_vars

\* the scan and what the command line does with its results: cmd_scan saves
\* them, cmd_last reads them back
CmdNext ==
    \/ Next
    \/ \E now \in ClockReadings : \E failAt \in 0..(MaxPairs + 1) :
          CmdScanSave(now, failAt)
    \/ CmdLast

CmdSpec == Init /\ [][CmdNext]_vars

\* every range string: the address and the prefix length in range or just
\* outside of it
AllCidrs == [addr : (-1)..Pow2(AddrBits), prefix : (-1)..(AddrBits + 1)]

\* run_scan is called on any range with any cap, a negative one included
ExpandInit ==
    /\ cidr \in AllCidrs
    /\ ports = <<22>>
    /\ cfg \in [max_hosts : (-1)..Pow2(AddrBits), concurrency : {1},
                banner_max_bytes : {banner_max_bytes}]
    /\ ScanNotStarted
    /\ OthersIdle

\* run_scan up to its first await: the expansion and the task creation
ExpandNext == RunScanStart

ExpandSpec == ExpandInit /\ [][ExpandNext]_vars

\* no scan is under way: run_scan is not called in the behaviours below
NoScan ==
    /\ cidr = [addr |-> 0, prefix |-> AddrBits]
    /\ ports = << >>
    /\ cfg = [max_hosts |-> 0, concurrency |-> 1, banner_max_bytes |-> banner_max_bytes]
    /\ ScanNotStarted

\* parse_ports is called on the string of a list of items
PortsInit ==
    /\ NoScan
    /\ \E items \in UNION { [1..n -> PortItems] : n \in 0..MaxItems } :
          \E sep \in Separators :
             pp = [pc |-> "call", items |-> items, arg |-> ports_str(items, sep),
                   out |-> << >>, exc |-> "none"]
    /\ db = EmptyStore
    /\ call = NoCall
    /\ LedgerIdle
    /\ job = NoJob

\* cli.py line 40: parse_ports(args.ports) returns or raises
ParsePorts ==
    /\ pp.pc = "call"
    /\ LET r == parse_ports(pp.arg)
       IN  pp' = [pp EXCEPT !.pc = "done", !.out = r.value, !.exc = r.exc]
    /\ UNCHANGED <<scanvars, db, call, ledgervars, job>>

PortsNext == ParsePorts

PortsSpec == PortsInit /\ [][PortsNext]_vars

\* the results passed to the store: a closed port, an open port with its
\* banner, and a result built without a timestamp
StoreResults ==
    { ScanResult(1, 22, FALSE, None, None, Some(utcnow(0))),
      ScanResult(2, 80, TRUE, Some("http"), Some(<<72, 84>>), Some(utcnow(1))),
      ScanResult(2, 22, TRUE, Some("unknown"), None, None) }

\* the batches passed to save_results
Batches == UNION { [1..n -> StoreResults] : n \in 0..MaxBatch }

\* the limits passed to get_last_n
Limits == (-1)..(MaxRows + 1)

\* the store functions are called on a path where no database exists yet
StoreInit ==
    /\ NoScan
    /\ PortsIdle
    /\ db = EmptyStore
    /\ call = NoCall
    /\ LedgerIdle
    /\ job = NoJob

\* init_db(path) is called
InitDb ==
    /\ LET r == init_db(db)
       IN  /\ db' = r.db
           /\ call' = [op |-> "init_db", exc |-> r.exc, before |-> db,
                       batch |-> << >>, limit |-> 0, out |-> << >>]
    /\ UNCHANGED <<scanvars, pp, ledgervars, job>>

\* save_results(path, batch) is called; the clock reads now; the statement
\* numbered failAt fails
SaveResults(batch, now, failAt) ==
    /\ Len(db.rows) + Len(batch) <= MaxRows
    /\ failAt <= Len(batch) + 1
    /\ LET r == save_results(db, batch, now, failAt)
       IN  /\ db' = r.db
           /\ call' = [op |-> "save_results", exc |-> r.exc, before |-> db,
                       batch |-> batch, limit |-> 0, out |-> << >>]
    /\ UNCHANGED <<scanvars, pp, ledgervars, job>>

\* get_last_n(path, limit) is called
GetLastN(limit) ==
    /\ LET r == get_last_n(db, limit)
       IN  call' = [op |-> "get_last_n", exc |-> r.exc, before |-> db,
                   batch |-> << >>, limit |-> limit, out |-> r.out]
    /\ UNCHANGED <<scanvars, pp, db, ledgervars, job>>

StoreNext ==
    \/ InitDb
    \/ \E batch \in Batches : \E now \in ClockReadings :
          \E failAt \in 0..(MaxBatch + 1) : SaveResults(batch, now, failAt)
    \/ \E limit \in Limits : GetLastN(limit)

StoreSpec == StoreInit /\ [][StoreNext]_vars

\* ------------------------------------------------------------- the ledger
\* the accounts, the amounts and the initial balances the calls name
Accounts == {"alice", "bob"}

Amounts == {0, 1, 3}

InitialBalances == {0, 2}

\* the calls a thread makes: the methods of LedgerService, and
\* LedgerClient.charge in direct mode ("client_charge")
LedgerCalls ==
    { ServiceCall("create_account_if_missing", a, "-", n) :
          a \in Accounts, n \in InitialBalances }
      \cup { ServiceCall("get_balance", a, "-", 0) : a \in Accounts }
      \cup { ServiceCall("charge", a, b, n) : a \in Accounts, b \in Accounts, n \in Amounts }
      \cup { ServiceCall("credit", a, "-", n) : a \in Accounts, n \in Amounts }
      \cup { ServiceCall("client_charge", a, b, n) :
                a \in Accounts, b \in Accounts, n \in Amounts }

NoServiceCall == ServiceCall("none", "-", "-", 0)

\* the fields of a PaymentRequiredError (client.py lines 33-58)
PaymentRequired(required, balance) ==
    [required |-> required, balance |-> balance, shortfall |-> required - balance]

\* a thread that has called nothing yet on service s
NewThread(s) ==
    [svc |-> s, pc |-> "idle", top |-> NoServiceCall, cur |-> NoServiceCall,
     stage |-> "none", before |-> create_empty_state, after |-> create_empty_state,
     top_before |-> create_empty_state, exc |-> "none", value |-> 0,
     payment |-> PaymentRequired(0, 0), calls |-> 0]

\* a LedgerService that is not constructed yet
NewService(auto_create_accounts) ==
    [pc |-> "closed", auto |-> auto_create_accounts, state |-> create_empty_state,
     initial |-> create_empty_state, lock |-> 0]

\* load_state (lines 62-79): the empty state when the file does not exist
load_state(file) == IF ~file.exists THEN create_empty_state ELSE file.state

\* save_state (lines 82-95): the file is rewritten with the whole state
save_state(state) == [exists |-> TRUE, state |-> state]

\* nothing but the ledger changes
LedgerOnly == UNCHANGED <<scanvars, pp, db, call, job>>

\* LedgerService.__init__ line 53: the state is loaded from the file
OpenLoad(s) ==
    /\ services[s].pc = "closed"
    /\ services' = [services EXCEPT ![s].state = load_state(ledger_file),
                                    ![s].pc = "loaded"]
    /\ UNCHANGED <<ledger_file, threads, history>>
    /\ LedgerOnly

\* LedgerService.__init__ lines 57-60: the provider account is ensured and
\* the state is saved
OpenSave(s) ==
    /\ services[s].pc = "loaded"
    /\ LET m == ensure_account(services[s].state, default_provider_account, 0)
       IN  /\ services' = [services EXCEPT ![s].state = m, ![s].initial = m,
                                           ![s].pc = "open"]
           /\ ledger_file' = save_state(m)
    /\ UNCHANGED <<threads, history>>
    /\ LedgerOnly

RECURSIVE CallsMade(_)
\* the calls the threads 1 .. n have made
CallsMade(n) == IF n = 0 THEN 0 ELSE threads[n].calls + CallsMade(n - 1)

\* a thread calls c on its service; LedgerClient.charge starts with can_pay
\* (client.py line 185)
Call(t, c) ==
    /\ threads[t].pc \in {"idle", "returned"}
    /\ services[threads[t].svc].pc = "open"
    /\ CallsMade(Len(threads)) < MaxCalls
    /\ threads' = [threads EXCEPT ![t] =
          [@ EXCEPT !.pc = "acquire", !.top = c, !.calls = @ + 1,
                    !.cur = IF c.name = "client_charge"
                            THEN ServiceCall("require_balance", c.a, "-", c.n)
                            ELSE c,
                    !.stage = IF c.name = "client_charge" THEN "can_pay" ELSE "direct",
                    !.top_before = services[threads[t].svc].state,
                    !.exc = "none", !.value = 0,
                    !.payment = PaymentRequired(0, 0)]]
    /\ UNCHANGED <<ledger_file, services, history>>
    /\ LedgerOnly

\* "with self._lock": the thread takes the lock when it is free
Acquire(t) ==
    /\ threads[t].pc = "acquire"
    /\ services[threads[t].svc].lock = 0
    /\ services' = [services EXCEPT ![threads[t].svc].lock = t]
    /\ threads' = [threads EXCEPT ![t].pc = "locked"]
    /\ UNCHANGED <<ledger_file, history>>
    /\ LedgerOnly

\* the call returns to its caller with outcome r
Returns(th, r) ==
    [th EXCEPT !.pc = "returned", !.exc = r.exc, !.value = r.value]

\* LedgerClient.charge (client.py lines 185-205) after the call of stage
\* th.stage has ended with outcome r
client_charge_next(th, r) ==
    CASE th.stage = "can_pay" ->
             IF r.value
             THEN [th EXCEPT !.pc = "acquire", !.stage = "charge",
                             !.cur = ServiceCall("charge", th.top.a, th.top.b, th.top.n)]
             ELSE [th EXCEPT !.pc = "acquire", !.stage = "balance",
                             !.cur = ServiceCall("get_balance", th.top.a, "-", 0)]
      [] th.stage = "charge" ->
             IF r.exc = "InsufficientBalanceError"
             THEN [th EXCEPT !.pc = "acquire", !.stage = "balance",
                             !.cur = ServiceCall("get_balance", th.top.a, "-", 0)]
             ELSE Returns(th, r)
      [] th.stage = "balance" ->
             IF r.exc # "none" THEN Returns(th, r)
             ELSE [th EXCEPT !.pc = "returned", !.exc = "PaymentRequiredError",
                             !.payment = PaymentRequired(th.top.n, r.value)]

\* the method runs under the lock, saves if it gets that far, and the lock
\* is released on the way out, also by an exception
Body(t) ==
    /\ threads[t].pc = "locked"
    /\ LET th == threads[t]
           s  == th.svc
           r  == run_call(services[s].state, services[s].auto, th.cur)
           t1 == [th EXCEPT !.before = services[s].state, !.after = r.mem]
       IN  /\ services' = [services EXCEPT ![s].state = r.mem, ![s].lock = 0]
           /\ ledger_file' = IF r.save THEN save_state(r.mem) ELSE ledger_file
           /\ history' = Append(history, [thread |-> t, svc |-> s, call |-> th.cur,
                                          exc |-> r.exc])
           /\ threads' = [threads EXCEPT ![t] =
                 IF th.stage = "direct" THEN Returns(t1, r)
                 ELSE client_charge_next(t1, r)]
    /\ LedgerOnly

LedgerNext ==
    \/ \E s \in DOMAIN services : OpenLoad(s)
    \/ \E s \in DOMAIN services : OpenSave(s)
    \/ \E t \in DOMAIN threads : \E c \in LedgerCalls : Call(t, c)
    \/ \E t \in DOMAIN threads : Acquire(t)
    \/ \E t \in DOMAIN threads : Body(t)

\* nothing but the ledger is in use
LedgerAlone ==
    /\ NoScan
    /\ PortsIdle
    /\ db = EmptyStore
    /\ call = NoCall
    /\ job = NoJob
    /\ ledger_file = NoFile
    /\ history = << >>

\* one thread calls one LedgerService on a fresh ledger file
LedgerSeqInit ==
    /\ LedgerAlone
    /\ \E auto \in BOOLEAN : services = <<NewService(auto)>>
    /\ threads = <<NewThread(1)>>

LedgerSeqSpec == LedgerSeqInit /\ [][LedgerNext]_vars

\* two threads call one LedgerService
LedgerInit ==
    /\ LedgerAlone
    /\ services = <<NewService(TRUE)>>
    /\ threads = <<NewThread(1), NewThread(1)>>

LedgerSpec == LedgerInit /\ [][LedgerNext]_vars

\* two LedgerService objects are opened on the same file, each with a thread
LedgerTwoInit ==
    /\ LedgerAlone
    /\ services = <<NewService(TRUE), NewService(TRUE)>>
    /\ threads = <<NewThread(1), NewThread(2)>>

LedgerTwoSpec == LedgerTwoInit /\ [][LedgerNext]_vars

\* ------------------------------------------- mesh_scanner_service.py
\* PROVIDER_ACCOUNT_ID (line 24)
PROVIDER_ACCOUNT_ID == "mesh_scanner_provider"

\* estimate_cost_tokens (lines 75-83): a tenth of hosts x ports, rounded up,
\* and one token at least
estimate_cost_tokens(host_count, port_count) ==
    LET raw    == host_count * port_count
        tokens == (raw + 9) \div 10
    IN  IF tokens > 1 THEN tokens ELSE 1

\* LedgerClient.charge in direct mode (client.py lines 184-205), run whole:
\* the state it leaves in memory, the exception it raises, whether the
\* service saved, and the fields of the PaymentRequiredError
client_charge(mem, auto_create_accounts, payer_id, receiver_id, amount) ==
    LET refused(m) ==
            LET b == get_balance(m, payer_id)
            IN  [mem |-> m, save |-> FALSE,
                 exc |-> IF b.exc # "none" THEN b.exc ELSE "PaymentRequiredError",
                 payment |-> PaymentRequired(amount, b.value)]
    IN  IF ~require_balance(mem, payer_id, amount).value THEN refused(mem)
        ELSE LET r == charge(mem, auto_create_accounts, payer_id, receiver_id, amount)
             IN  IF r.exc = "InsufficientBalanceError" THEN refused(r.mem)
                 ELSE [mem |-> r.mem, save |-> r.save, exc |-> r.exc,
                       payment |-> PaymentRequired(0, 0)]

\* the handler ends with an HTTP status
Respond(status) == job' = [job EXCEPT !.pc = "done", !.status = status]

\* create_scan_job lines 101-108: the range is expanded (a range ip_network
\* rejects raises ValueError out of the handler), no host is answered with
\* 400, and the cost is estimated
JobExpand ==
    /\ job.pc = "received"
    /\ IF ~ip_network_ok(cidr) THEN Respond(500)
       ELSE LET h == expand_cidr(cidr, cfg.max_hosts)
            IN  IF Len(h) = 0 THEN Respond(400)
                ELSE job' = [job EXCEPT !.pc = "ensure",
                                        !.cost = estimate_cost_tokens(Len(h), Len(ports))]
    /\ UNCHANGED <<scanvars, pp, db, call, ledgervars>>

\* create_scan_job lines 111-115: ledger.ensure_account, whose errors are
\* ignored
JobEnsure ==
    /\ job.pc = "ensure"
    /\ LET c == ServiceCall("create_account_if_missing", job.account, "-", 0)
           r == run_call(services[1].state, services[1].auto, c)
       IN  /\ services' = [services EXCEPT ![1].state = r.mem]
           /\ ledger_file' = IF r.save THEN save_state(r.mem) ELSE ledger_file
           /\ history' = Append(history, [thread |-> 0, svc |-> 1, call |-> c,
                                          exc |-> r.exc])
    /\ job' = [job EXCEPT !.pc = "charge"]
    /\ UNCHANGED <<scanvars, pp, db, call, threads>>

\* as JobCharge, but the scan is started whatever the charge raised
JobCharge_scan_anyway ==
    /\ job.pc = "charge"
    /\ LET c == ServiceCall("client_charge", job.account, PROVIDER_ACCOUNT_ID, job.cost)
           r == client_charge(services[1].state, services[1].auto,
                              c.a, c.b, c.n)
       IN  /\ services' = [services EXCEPT ![1].state = r.mem]
           /\ ledger_file' = IF r.save THEN save_state(r.mem) ELSE ledger_file
           /\ history' = Append(history, [thread |-> 0, svc |-> 1, call |-> c,
                                          exc |-> r.exc])
           /\ job' = [job EXCEPT !.pc = "scan"]
           /\ rs_pc' = "start"
    /\ UNCHANGED <<cidr, ports, cfg, rs_exc, hosts, sem_value, sem_waiters,
                   sem_woken, tasks, completed, collected, results,
                   pp, db, call, threads>>

\* create_scan_job lines 118-144: ledger.charge; PaymentRequiredError is
\* answered with 402, any other exception leaves the handler, and only
\* after a charge that returned is run_scan called
JobCharge ==
    /\ job.pc = "charge"
    /\ LET c == ServiceCall("client_charge", job.account, PROVIDER_ACCOUNT_ID, job.cost)
           r == client_charge(services[1].state, services[1].auto,
                              c.a, c.b, c.n)
       IN  /\ services' = [services EXCEPT ![1].state = r.mem]
           /\ ledger_file' = IF r.save THEN save_state(r.mem) ELSE ledger_file
           /\ history' = Append(history, [thread |-> 0, svc |-> 1, call |-> c,
                                          exc |-> r.exc])
           /\ CASE r.exc = "none" ->
                       /\ job' = [job EXCEPT !.pc = "scan"]
                       /\ rs_pc' = "start"
                [] r.exc = "PaymentRequiredError" ->
                       /\ Respond(402)
                       /\ UNCHANGED rs_pc
                [] OTHER ->
                       /\ Respond(500)
                       /\ UNCHANGED rs_pc
    /\ UNCHANGED <<cidr, ports, cfg, rs_exc, hosts, sem_value, sem_waiters,
                   sem_woken, tasks, completed, collected, results,
                   pp, db, call, threads>>

\* create_scan_job line 145: run_scan has returned and its results are
\* saved as one batch; the statement numbered failAt fails
JobSave(now, failAt) ==
    /\ job.pc = "scan"
    /\ rs_pc = "returned"
    /\ failAt <= Len(results) + 1
    /\ LET r == save_results(db, results, now, failAt)
       IN  /\ db' = r.db
           /\ call' = [op |-> "save_results", exc |-> r.exc, before |-> db,
                       batch |-> results, limit |-> 0, out |-> << >>]
           /\ Respond(IF r.exc = "none" THEN 200 ELSE 500)
    /\ UNCHANGED <<scanvars, pp, ledgervars>>

\* create_scan_job line 144: an exception of run_scan leaves the handler
JobScanRaised ==
    /\ job.pc = "scan"
    /\ rs_pc = "raised"
    /\ Respond(500)
    /\ UNCHANGED <<scanvars, pp, db, call, ledgervars>>

\* the ledgers a request meets: the provider accounts exist (lines 34-39 and
\* LedgerService.__init__), the payer has no account or holds b tokens
JobLedgers ==
    LET base == ensure_account(ensure_account(create_empty_state,
                                              default_provider_account, 0),
                               PROVIDER_ACCOUNT_ID, 0)
    IN  {base} \cup { ensure_account(base, "alice", b) : b \in 0..2 }

\* a /scan-jobs request arrives: the store is initialised (startup, lines
\* 93-95), the ledger is open, run_scan is not called yet
JobInit ==
    /\ cidr \in ScanCidrs
    /\ ports \in PortLists
    /\ cfg \in Configs
    /\ Len(expand_cidr(cidr, cfg.max_hosts)) * Len(ports) <= MaxPairs
    /\ rs_pc = "not_called"
    /\ rs_exc = "none"
    /\ hosts = << >>
    /\ sem_value = 0
    /\ sem_waiters = << >>
    /\ sem_woken = {}
    /\ tasks = << >>
    /\ completed = << >>
    /\ collected = << >>
    /\ results = << >>
    /\ PortsIdle
    /\ db = init_db(EmptyStore).db
    /\ call = NoCall
    /\ \E st \in JobLedgers : \E auto \in BOOLEAN :
          /\ ledger_file = save_state(st)
          /\ services = <<[NewService(auto) EXCEPT !.pc = "open", !.state = st,
                                                   !.initial = st]>>
    /\ threads = << >>
    /\ history = << >>
    /\ job = [pc |-> "received", status |-> 0, cost |-> 0, account |-> "alice"]

JobNext ==
    \/ Next
    \/ JobExpand
    \/ JobEnsure
    \/ JobCharge
    \/ \E now \in ClockReadings : \E failAt \in 0..(MaxPairs + 1) :
          JobSave(now, failAt)
    \/ JobScanRaised

JobSpec == JobInit /\ [][JobNext]_vars

\* the ports the sniff policy is examined on: the four HTTP ports, their
\* neighbours, and other well-known ports
PolicyPorts == {21, 22, 79, 80, 81, 442, 443, 444, 7999, 8000, 8001, 8079,
                8080, 8081, 8443}

\* a scan of the two hosts of a block on one port of PolicyPorts, one slot
PolicyInit ==
    /\ cidr \in ScanCidrs
    /\ ports \in { <<p>> : p \in PolicyPorts }
    /\ cfg = [max_hosts |-> 2, concurrency |-> 1, banner_max_bytes |-> banner_max_bytes]
    /\ ScanNotStarted
    /\ OthersIdle

PolicySpec == PolicyInit /\ [][Next]_vars

\* the event loop runs a coroutine that is ready, and every connect, send,
\* read and close finishes or hits its timeout
FairSpec == Init /\ [][Next]_vars /\ WF_vars(Next)

\* ------------------------------------------------------------ vocabulary
Returned == rs_pc = "returned"

\* the semaphore exists and the tasks were created
Started == rs_pc \in {"collecting", "returned"}

ActivePcs == {"probe_connect", "probe_close", "sniff_connect", "sniff_send",
              "sniff_read", "sniff_close"}

SniffPcs == {"sniff_connect", "sniff_send", "sniff_read", "sniff_close"}

\* the tasks past admission and not finished: probing, sniffing, or handed a
\* slot by release and about to resume
InFlight == { t \in TaskIds : tasks[t].pc \in ActivePcs \/ t \in sem_woken }

\* the tasks waiting for admission
Waiting == { t \in TaskIds : tasks[t].pc = "waiting" /\ t \notin sem_woken }

\* how many tasks were submitted for host h and port p
Submitted(h, p) ==
    Cardinality({ i \in 1..Len(hosts) : hosts[i] = h })
      * Cardinality({ j \in 1..Len(ports) : ports[j] = p })

\* how many results are about host h and port p
Reported(h, p) ==
    Cardinality({ i \in 1..Len(results) : results[i].ip = h /\ results[i].port = p })

HostValues == 0..(Pow2(AddrBits) - 1)

\* the task a result came from
TaskOf(i) == tasks[collected[i]]

\* ------------------------------------------------------------------ claims
\* C1: when run_scan returns it returns len(hosts) x len(ports) results and
\* every submitted (host, port) pair has exactly as many results as it has
\* tasks: none is missing, none is reported twice
C1_OneResultPerPair ==
    Returned =>
        /\ Len(results) = Len(hosts) * Len(ports)
        /\ \A h \in HostValues : \A p \in PortPool : Reported(h, p) = Submitted(h, p)

\* a scan of two hosts has returned with an open and a closed result
C1_Witness ==
    /\ Returned
    /\ Len(hosts) = 2
    /\ Len(ports) >= 1
    /\ \E i \in 1..Len(results) : results[i].is_open
    /\ \E i \in 1..Len(results) : ~results[i].is_open

\* C2: the number of tasks in flight never exceeds cfg.concurrency
C2_ConcurrencyBound ==
    Started => Cardinality(InFlight) <= cfg.concurrency

\* the gate is saturated while another task is queued
C2_Witness ==
    /\ Started
    /\ cfg.concurrency >= 1
    /\ Cardinality(InFlight) = cfg.concurrency
    /\ Waiting # {}

\* C3: no connection failure escapes from a task or from run_scan, the
\* failing task yields a closed or no-banner result, and every task's result
\* is the one its own probe and sniff outcomes determine
C3_FailuresAreData ==
    /\ rs_exc \in {"none", "ValueError"}
    /\ \A t \in TaskIds :
          /\ tasks[t].exc = "none"
          /\ tasks[t].pc = "done" =>
                /\ tasks[t].result # None
                /\ tasks[t].result[1].ip = tasks[t].host
                /\ tasks[t].result[1].port = tasks[t].port
                /\ tasks[t].result[1].is_open = (tasks[t].probe = "established")
                /\ (tasks[t].result[1].banner # None) = (tasks[t].sniff = "data")
    /\ Returned =>
          /\ \A t \in TaskIds : tasks[t].pc = "done"
          /\ \A t \in TaskIds : \E i \in 1..Len(collected) : collected[i] = t
          /\ \A i \in 1..Len(results) : results[i] = tasks[collected[i]].result[1]

\* run_scan has returned; the task that finished first failed at its probe
\* or at its sniff, and a later one read a banner
C3_Witness ==
    /\ Returned
    /\ Len(results) >= 2
    /\ TaskOf(1).probe = "failed" \/ TaskOf(1).sniff = "failed"
    /\ \E i \in 2..Len(results) : results[i].banner # None

\* C4: a closed result has neither banner nor service, and no sniff is ever
\* started for a pair whose probe returned false
C4_ClosedHasNothing ==
    /\ \A i \in 1..Len(results) :
          ~results[i].is_open =>
              results[i].banner = None /\ results[i].service = None
    /\ \A t \in TaskIds :
          /\ tasks[t].pc \in SniffPcs => tasks[t].probe = "established"
          /\ tasks[t].probe = "failed" =>
                tasks[t].sniff = "none" /\ tasks[t].pc = "done"

\* run_scan has returned a closed result
C4_Witness ==
    /\ Returned
    /\ \E i \in 1..Len(results) : ~results[i].is_open

\* C5 as stated: service and banner are non-null only if the port is open
\* and the sniff returned a text fragment
C5_Original ==
    \A i \in 1..Len(results) :
        /\ results[i].service # None =>
              results[i].is_open /\ TaskOf(i).sniff = "data"
        /\ results[i].banner # None =>
              results[i].is_open /\ TaskOf(i).sniff = "data"

\* C5 amended: service is non-null only if the port is open, and is then the
\* port's label whether or not the sniff succeeded; banner is non-null only
\* if the port is open and the sniff read data
C5_ServiceAndBanner ==
    \A i \in 1..Len(results) :
        /\ results[i].service # None => results[i].is_open
        /\ results[i].is_open => results[i].service = Some(service_label(results[i].port))
        /\ results[i].banner # None =>
              results[i].is_open /\ TaskOf(i).sniff = "data"

\* run_scan has returned an open result with a service label and no banner,
\* and an open result with a banner
C5_Witness ==
    /\ Returned
    /\ \E i \in 1..Len(results) :
          results[i].is_open /\ results[i].service # None /\ results[i].banner = None
    /\ \E i \in 1..Len(results) : results[i].banner # None

\* every task has finished and run_scan has returned
AllDone == Returned /\ \A t \in TaskIds : tasks[t].pc = "done"

\* the scan has no (host, port) pair: the cap leaves no host (every block
\* has at least one host), or there is no port
NoPairs == cfg.max_hosts <= 0 \/ ports = << >>

\* C6 as stated: for every concurrency >= 0 the semaphore accepts, every
\* task finishes and run_scan returns
C6_Original ==
    (rs_pc = "start" /\ cfg.concurrency >= 0) ~> AllDone

\* C6 amended: for every concurrency >= 1, and for concurrency = 0 when
\* there is no pair to scan, every task finishes and run_scan returns
C6_Terminates ==
    (rs_pc = "start" /\ (cfg.concurrency >= 1 \/ (cfg.concurrency = 0 /\ NoPairs)))
      ~> AllDone

\* a scan with more tasks than slots has returned
C6_Witness ==
    /\ AllDone
    /\ cfg.concurrency >= 1
    /\ Len(tasks) > cfg.concurrency

\* C7: when run_scan has returned, every task is done, none waits, none is
\* in flight and every slot is free
C7_ReturnMeansAllDone ==
    Returned =>
        /\ \A t \in TaskIds : tasks[t].pc = "done"
        /\ sem_waiters = << >>
        /\ Waiting = {}
        /\ InFlight = {}
        /\ sem_value = cfg.concurrency

\* run_scan has returned from a scan in which the gate was needed
C7_Witness ==
    /\ Returned
    /\ Len(tasks) >= 2
    /\ cfg.concurrency = 1

\* C8: free slots + tasks in flight = cfg.concurrency, and a task that has
\* not been admitted or has finished is not in flight
C8_SlotAccounting ==
    Started =>
        /\ sem_value >= 0
        /\ sem_value + Cardinality(InFlight) = cfg.concurrency
        /\ \A t \in TaskIds :
              tasks[t].pc \in {"created", "done"} => t \notin InFlight

\* the slot of a task whose probe or sniff failed has been handed to a
\* waiter that has not resumed yet
C8_Witness ==
    /\ Started
    /\ sem_woken # {}
    /\ \E t \in TaskIds :
          /\ tasks[t].pc = "done"
          /\ tasks[t].probe = "failed" \/ tasks[t].sniff = "failed"

\* C9: check_port is true exactly when the connect was established: after a
\* failed connect the task is closed and nothing was raised; after an
\* established connect, whatever the close did, the task is open
C9_CheckPort ==
    \A t \in TaskIds :
        /\ tasks[t].exc = "none"
        /\ tasks[t].probe = "failed" => tasks[t].pc = "done" /\ ~tasks[t].is_open
        /\ (tasks[t].probe = "established" /\ tasks[t].pc # "probe_close") =>
              tasks[t].is_open
        /\ tasks[t].is_open => tasks[t].probe = "established"

\* one probe was established, another one failed
C9_Witness ==
    /\ \E t \in TaskIds : tasks[t].probe = "established" /\ tasks[t].is_open
    /\ \E t \in TaskIds : tasks[t].probe = "failed" /\ tasks[t].pc = "done"

\* C10: a sniff that failed at connect, send or read returns None, raises
\* nothing, and its task returns an open result without banner
C10_SniffFailureIsNone ==
    \A t \in TaskIds :
        tasks[t].sniff = "failed" =>
            /\ tasks[t].exc = "none"
            /\ tasks[t].pc \in {"sniff_close", "done"}
            /\ tasks[t].pc = "sniff_close" => tasks[t].pending = None
            /\ tasks[t].pc = "done" =>
                  /\ tasks[t].result # None
                  /\ tasks[t].result[1].is_open
                  /\ tasks[t].result[1].banner = None

\* an HTTP sniff and a raw sniff have both failed and their tasks are done
C10_Witness ==
    /\ \E t \in TaskIds :
          tasks[t].pc = "done" /\ tasks[t].sniff = "failed" /\ is_http_port(tasks[t].port)
    /\ \E t \in TaskIds :
          tasks[t].pc = "done" /\ tasks[t].sniff = "failed" /\ ~is_http_port(tasks[t].port)

\* the connections open in the scan
OpenConns == { t \in TaskIds : tasks[t].conns > 0 }

\* C11: a finished task has no open connection, whatever its probe, its
\* sniff and the closes did; when run_scan has returned no connection is open
C11_ConnectionsClosed ==
    /\ \A t \in TaskIds :
          /\ tasks[t].conns >= 0
          /\ tasks[t].pc = "done" => tasks[t].conns = 0
    /\ Returned => OpenConns = {}

\* run_scan has returned after a sniff whose read failed and a probe that
\* was refused
C11_Witness ==
    /\ Returned
    /\ \E t \in TaskIds : tasks[t].sent /\ tasks[t].sniff = "failed"
    /\ \E t \in TaskIds : tasks[t].probe = "failed"

\* the ports C12 names
C12_Ports == {80, 443, 8000, 8080}

BlockSize == Pow2(AddrBits - cidr.prefix)

BlockNet == cidr.addr - (cidr.addr % BlockSize)

BlockLast == BlockNet + BlockSize - 1

\* the uncapped expansion of the range
Uncapped == network_hosts(cidr)

\* the range is a network: an address of AddrBits bits and a prefix length
\* of at most AddrBits
ValidRange ==
    /\ cidr.addr >= 0
    /\ cidr.addr < Pow2(AddrBits)
    /\ cidr.prefix >= 0
    /\ cidr.prefix <= AddrBits

\* run_scan has expanded a valid range
Expanded == rs_pc # "start" /\ ValidRange

\* C13: for a valid range and a cap k >= 0 the hosts are the first
\* min(k, n) addresses of the uncapped expansion, in the same order; never
\* more than k, none for k = 0; the hosts run_scan scans (one task each) are
\* these, so never more than cfg.max_hosts
C13_CapIsPrefix ==
    (Expanded /\ cfg.max_hosts >= 0) =>
        /\ Started
        /\ Len(hosts) = Min(cfg.max_hosts, Len(Uncapped))
        /\ \A i \in 1..Len(hosts) : hosts[i] = Uncapped[i]
        /\ Len(hosts) <= cfg.max_hosts
        /\ cfg.max_hosts = 0 => hosts = << >> /\ rs_pc = "returned"
        /\ Len(tasks) = Len(hosts)
        /\ \A t \in TaskIds : tasks[t].host = hosts[t]

\* a cap below the size of the block has cut the expansion
C13_Witness ==
    /\ Expanded
    /\ cfg.max_hosts >= 1
    /\ cfg.max_hosts < Len(Uncapped)
    /\ Len(hosts) = cfg.max_hosts

\* C14 as stated: for every prefix length the hosts are distinct, inside the
\* block, and are neither its network nor its broadcast address
C14_Original ==
    Expanded =>
        /\ \A i, j \in 1..Len(hosts) : hosts[i] = hosts[j] => i = j
        /\ \A i \in 1..Len(hosts) :
              /\ hosts[i] \in BlockNet..BlockLast
              /\ hosts[i] # BlockNet
              /\ hosts[i] # BlockLast

\* C14 amended: the hosts are distinct and inside the block for every prefix
\* length; a block of 4 or more addresses yields neither its network nor its
\* broadcast address, and a block of 4 yields exactly its 2 middle addresses;
\* a block of 2 addresses yields both, a block of 1 its only address
C14_UsableHosts ==
    Expanded =>
        /\ \A i, j \in 1..Len(hosts) : hosts[i] = hosts[j] => i = j
        /\ \A i \in 1..Len(hosts) : hosts[i] \in BlockNet..BlockLast
        /\ BlockSize >= 4 =>
              \A i \in 1..Len(hosts) : hosts[i] # BlockNet /\ hosts[i] # BlockLast
        /\ (BlockSize = 4 /\ cfg.max_hosts >= 2) =>
              hosts = <<BlockNet + 1, BlockNet + 2>>
        /\ (BlockSize = 2 /\ cfg.max_hosts >= 2) => hosts = <<BlockNet, BlockLast>>
        /\ (BlockSize = 1 /\ cfg.max_hosts >= 1) => hosts = <<BlockNet>>

\* a block of 4 addresses given by an inner address has been expanded to its
\* 2 middle addresses
C14_Witness ==
    /\ Expanded
    /\ BlockSize = 4
    /\ cidr.addr # BlockNet
    /\ Len(hosts) = 2

\* C15: for a range that is not a valid network expand_cidr raises, run_scan
\* raises the same error, and no host, no task and no connection exists
C15_InvalidRange ==
    (rs_pc # "start" /\ ~ValidRange) =>
        /\ rs_pc = "raised"
        /\ rs_exc = "ValueError"
        /\ hosts = << >>
        /\ tasks = << >>
        /\ OpenConns = {}

\* run_scan has raised on a prefix length beyond the address width
C15_Witness ==
    /\ rs_pc = "raised"
    /\ cidr.addr = 0
    /\ cidr.prefix = AddrBits + 1

\* the ports an item stands for: the single port, or every port from lo to hi
ItemPorts(it) == IF it.range THEN { n \in PortNums : it.lo <= n /\ n <= it.hi }
                 ELSE {it.lo}

\* C16: for a string of single ports and lo-hi ranges separated by commas
\* parse_ports returns, without raising, a strictly ascending list whose
\* elements are exactly the ports of the items (a range with lo > hi has none)
C16_ParsePorts ==
    pp.pc = "done" =>
        /\ pp.exc = "none"
        /\ \A i \in 1..(Len(pp.out) - 1) : pp.out[i] < pp.out[i + 1]
        /\ { pp.out[i] : i \in 1..Len(pp.out) }
              = UNION { ItemPorts(pp.items[k]) : k \in 1..Len(pp.items) }

\* a range of two-digit and one-digit ports and a port inside of it have been
\* parsed: the repeated port is returned once
C16_Witness ==
    /\ pp.pc = "done"
    /\ Len(pp.items) = 2
    /\ pp.items[1] = [range |-> TRUE, lo |-> 9, hi |-> 11]
    /\ pp.items[2] = [range |-> FALSE, lo |-> 10, hi |-> 0]
    /\ pp.out = <<9, 10, 11>>

\* the k-th result of the saved batch is the row r: every column is the
\* result's field, is_open as 1 or 0, the timestamp as its text
RowOf(r, res) ==
    /\ r.ip = res.ip /\ r.port = res.port
    /\ r.is_open = (IF res.is_open THEN 1 ELSE 0)
    /\ r.service = res.service /\ r.banner = res.banner
    /\ \/ res.scanned_at = None /\ fromisoformat(r.scanned_at) \in ClockReadings
       \/ res.scanned_at = Some(fromisoformat(r.scanned_at))

\* C17: save_results is all-or-nothing: when it raises (at a row or at the
\* commit) the store is what it was before the call; when it returns the
\* store is the rows it had, unchanged, followed by one row per result of the
\* batch, in batch order, with ids after the existing ones
C17_AllOrNothing ==
    call.op = "save_results" =>
        IF call.exc # "none" THEN db = call.before
        ELSE LET old == Len(call.before.rows)
             IN  /\ Len(db.rows) = old + Len(call.batch)
                 /\ \A i \in 1..old : db.rows[i] = call.before.rows[i]
                 /\ \A k \in 1..Len(call.batch) :
                       RowOf(db.rows[old + k], call.batch[k])
                 /\ \A i \in 1..(Len(db.rows) - 1) : db.rows[i].id < db.rows[i + 1].id

\* a save of two results into an initialised store that holds a row has failed
C17_Witness ==
    /\ call.op = "save_results"
    /\ call.exc # "none"
    /\ Len(call.batch) = 2
    /\ call.before.has_table
    /\ Len(call.before.rows) = 1

\* C18: on an initialised store get_last_n(path, limit) with limit >= 0
\* returns min(limit, total rows) results: the most recently inserted rows,
\* the newest first
C18_LastN ==
    (call.op = "get_last_n" /\ call.limit >= 0 /\ db.has_table) =>
        /\ call.exc = "none"
        /\ Len(call.out) = Min(call.limit, Len(db.rows))
        /\ \A i \in 1..Len(call.out) :
              LET r == db.rows[Len(db.rows) + 1 - i]
              IN  /\ call.out[i].ip = r.ip /\ call.out[i].port = r.port
                  /\ call.out[i].is_open = (r.is_open = 1)
                  /\ call.out[i].service = r.service
                  /\ call.out[i].banner = r.banner
                  /\ call.out[i].scanned_at = Some(fromisoformat(r.scanned_at))

\* the two newest of three rows, saved in at least two batches, have been
\* read: the second row of the last save comes first
C18_Witness ==
    /\ call.op = "get_last_n"
    /\ call.limit = 2
    /\ Len(db.rows) = 3
    /\ db.rows[1].ip # db.rows[3].ip
    /\ Len(call.out) = 2
    /\ call.out[1].ip = db.rows[3].ip

\* C19: init_db on a store reached by init_db and save_results calls does
\* not raise and leaves the rows, their ids and their number unchanged
C19_InitIdempotent ==
    call.op = "init_db" =>
        /\ call.exc = "none"
        /\ db.has_table
        /\ db.rows = call.before.rows
        /\ db.seq = call.before.seq

\* init_db has been called on an initialised store that holds rows
C19_Witness ==
    /\ call.op = "init_db"
    /\ call.before.has_table
    /\ Len(call.before.rows) >= 2
    /\ db.rows = call.before.rows

\* C20: when the results of a scan have been saved and are read back, every
\* result read is the result saved, in all of ip, port, is_open, service,
\* banner and scanned_at (the newest row is read first)
C20_RoundTrip ==
    (rs_pc = "returned" /\ call.op = "get_last_n" /\ Len(db.rows) = Len(results)) =>
        /\ call.exc = "none"
        /\ Len(call.out) = Len(results)
        /\ \A i \in 1..Len(results) :
              LET saved == results[i]
                  read  == call.out[Len(results) + 1 - i]
              IN  /\ read.ip = saved.ip
                  /\ read.port = saved.port
                  /\ read.is_open = saved.is_open
                  /\ read.service = saved.service
                  /\ read.banner = saved.banner
                  /\ read.scanned_at = saved.scanned_at

\* two results of a scan have been saved and read back: an open port with a
\* banner and a closed port, one stamped with microseconds and one without
C20_Witness ==
    /\ rs_pc = "returned"
    /\ call.op = "get_last_n"
    /\ Len(results) = 2
    /\ Len(call.out) = 2
    /\ \E i \in 1..2 : results[i].is_open /\ results[i].banner # None
                         /\ results[i].banner # Some(<< >>)
    /\ \E i \in 1..2 : ~results[i].is_open
    /\ results[1].scanned_at # results[2].scanned_at

\* C25: a task makes one probe connection attempt, one sniff connection
\* attempt only after its probe succeeded, and one read at most: a finished
\* task has probed exactly once, and sniffed exactly once if its port is open
\* and not at all otherwise; no attempt is repeated
C25_NoRetry ==
    \A t \in TaskIds :
        /\ tasks[t].probes <= 1 /\ tasks[t].sniffs <= 1 /\ tasks[t].reads <= 1
        /\ tasks[t].probes + tasks[t].sniffs <= 2
        /\ tasks[t].sniffs = 1 => tasks[t].probe = "established"
        /\ tasks[t].reads = 1 => tasks[t].sniffs = 1
        /\ tasks[t].pc \in {"probe_close", "sniff_connect"} => tasks[t].probes = 1
        /\ tasks[t].pc \in {"sniff_send", "sniff_read", "sniff_close"} => tasks[t].sniffs = 1
        /\ tasks[t].pc = "done" =>
              /\ tasks[t].probes = 1
              /\ tasks[t].sniffs = (IF tasks[t].is_open THEN 1 ELSE 0)

\* run_scan has returned after a refused probe, which was not repeated, and
\* after a sniff whose read failed, which was not repeated either
C25_Witness ==
    /\ Returned
    /\ \E t \in TaskIds : tasks[t].probe = "failed" /\ tasks[t].probes = 1
    /\ \E t \in TaskIds : tasks[t].sniff = "failed" /\ tasks[t].reads = 1

\* C26: the probe's connection is closed when the sniff starts, a task never
\* has two connections open, and the connections open in the scan are never
\* more than cfg.concurrency
C26_OneConnectionPerSlot ==
    /\ \A t \in TaskIds :
          /\ tasks[t].conns <= 1
          /\ tasks[t].pc = "sniff_connect" => tasks[t].conns = 0
          /\ tasks[t].conns = 1 =>
                tasks[t].pc \in {"probe_close", "sniff_send", "sniff_read", "sniff_close"}
    /\ Started => Cardinality(OpenConns) <= cfg.concurrency

\* as many connections as slots are open, one of them a sniff's own
C26_Witness ==
    /\ cfg.concurrency = 2
    /\ Cardinality(OpenConns) = 2
    /\ \E t \in OpenConns : tasks[t].pc = "sniff_read" /\ tasks[t].probes = 1

\* C27: every open result is labelled "http" or "unknown", also when its
\* sniff failed to connect, failed to send or read, or read nothing and its
\* banner is None
C27_OpenIsLabelled ==
    \A i \in 1..Len(results) :
        results[i].is_open =>
            /\ results[i].service \in {Some("http"), Some("unknown")}
            /\ TaskOf(i).sniff \in {"failed", "empty"} => results[i].banner = None

\* run_scan has returned two open results without banner: a sniff that could
\* not connect and a sniff that read nothing
C27_Witness ==
    /\ Returned
    /\ \E i \in 1..Len(results) :
          /\ results[i].is_open /\ results[i].banner = None
          /\ TaskOf(i).sniff = "failed" /\ TaskOf(i).conns = 0 /\ TaskOf(i).reads = 0
    /\ \E i \in 1..Len(results) :
          results[i].is_open /\ results[i].banner = None /\ TaskOf(i).sniff = "empty"

\* save_results has been called in this invocation
SaveCalled == call.op # "none"

\* C21: save_results is called only when run_scan has returned with every
\* task finished, and with the complete result list; no row is in the store
\* while a task waits or is in flight or when run_scan has raised; once
\* save_results has been called nothing is written again
C21_SaveOnceAfterScan ==
    /\ [](/\ SaveCalled =>
               /\ rs_pc = "returned"
               /\ \A t \in TaskIds : tasks[t].pc = "done"
               /\ call.batch = results
               /\ Len(call.batch) = Len(hosts) * Len(ports)
          /\ (Waiting # {} \/ InFlight # {} \/ rs_pc # "returned") =>
               (db.rows = << >> /\ ~SaveCalled)
          /\ Len(db.rows) \in {0, Len(results)})
    /\ [][SaveCalled => db' = db]_vars

\* the two results of a scan have been saved in one call
C21_Witness ==
    /\ call.op = "save_results"
    /\ call.exc = "none"
    /\ Len(call.batch) = 2
    /\ Len(db.rows) = 2
    /\ \A t \in TaskIds : tasks[t].pc = "done"

\* ------------------------------------------------------------- the ledger
\* the balance an account holds; an account that does not exist holds nothing
balance_of(state, account_id) ==
    IF has_account(state, account_id) THEN state.accounts[account_id] ELSE 0

RECURSIVE SumOver(_, _)
\* the sum of the balances of the accounts S
SumOver(accounts, S) ==
    IF S = {} THEN 0
    ELSE LET a == CHOOSE x \in S : TRUE
         IN  accounts[a] + SumOver(accounts, S \ {a})

\* the sum of all balances of a state
total_balance(state) == SumOver(state.accounts, DOMAIN state.accounts)

\* thread t is back from a charge that succeeded, of a payer to another
\* account
ChargeSucceeded(t) ==
    /\ threads[t].pc = "returned"
    /\ threads[t].cur.name = "charge"
    /\ threads[t].exc = "none"
    /\ threads[t].cur.a # threads[t].cur.b

\* C22: a successful charge of amount a from a payer to a different receiver
\* lowers the payer's balance by exactly a, raises the receiver's by exactly
\* a, changes no other account's balance and appends exactly one transfer
\* record; the sum of all balances is the same before and after
C22_ChargeMovesAmount ==
    \A t \in DOMAIN threads :
        ChargeSucceeded(t) =>
            LET c == threads[t].cur
                b == threads[t].before
                a == threads[t].after
            IN  /\ balance_of(a, c.a) = balance_of(b, c.a) - c.n
                /\ balance_of(a, c.b) = balance_of(b, c.b) + c.n
                /\ \A o \in (DOMAIN a.accounts \cup DOMAIN b.accounts) \ {c.a, c.b} :
                       balance_of(a, o) = balance_of(b, o)
                /\ a.transfers = Append(b.transfers, TransferRecord(c.a, c.b, c.n))
                /\ total_balance(a) = total_balance(b)

\* a charge of a positive amount between two accounts has succeeded
C22_Witness ==
    \E t \in DOMAIN threads :
        /\ ChargeSucceeded(t)
        /\ threads[t].cur.n > 0
        /\ balance_of(threads[t].after, threads[t].cur.b) > 0

\* thread t is back from a charge, made on the service or through the
\* client, whose amount exceeded the balance the payer had
ChargeExceeded(t) ==
    /\ threads[t].pc = "returned"
    /\ threads[t].top.name \in {"charge", "client_charge"}
    /\ has_account(threads[t].top_before, threads[t].top.a)
    /\ threads[t].top.n > threads[t].top_before.accounts[threads[t].top.a]

\* what C23 says in every case: the charge changes no balance and appends
\* no transfer record, and the client's error carries the amounts
RefusedCleanly(t) ==
    LET c   == threads[t].top
        b   == threads[t].top_before
        a   == threads[t].after
        bal == b.accounts[c.a]
    IN  /\ threads[t].exc # "none"
        /\ c.name = "client_charge" =>
               /\ threads[t].exc = "PaymentRequiredError"
               /\ threads[t].payment.required = c.n
               /\ threads[t].payment.balance = bal
               /\ threads[t].payment.shortfall = c.n - bal
        /\ \A o \in DOMAIN a.accounts \cup DOMAIN b.accounts :
               balance_of(a, o) = balance_of(b, o)
        /\ a.transfers = b.transfers

\* no account holds a negative balance, in memory or in the file
NoNegativeBalance ==
    /\ \A s \in DOMAIN services : \A o \in DOMAIN services[s].state.accounts :
           services[s].state.accounts[o] >= 0
    /\ \A o \in DOMAIN ledger_file.state.accounts : ledger_file.state.accounts[o] >= 0

\* C23 as stated: a charge whose amount exceeds the payer's balance fails,
\* with InsufficientBalanceError from LedgerService.charge and with
\* PaymentRequiredError (required = amount, the payer's balance, shortfall =
\* required - balance) from LedgerClient.charge; it changes no balance and
\* appends no transfer record; no balance of an account is ever negative
C23_AlwaysInsufficient ==
    /\ \A t \in DOMAIN threads :
           ChargeExceeded(t) =>
               /\ RefusedCleanly(t)
               /\ threads[t].top.name = "charge" =>
                      threads[t].exc = "InsufficientBalanceError"
    /\ NoNegativeBalance

\* C23, amended: a charge whose amount exceeds the payer's balance fails,
\* changes no balance and appends no transfer record; LedgerClient.charge
\* raises PaymentRequiredError with required = amount, the payer's balance
\* and shortfall = required - balance; LedgerService.charge raises
\* InsufficientBalanceError when the receiver has an account or
\* auto_create_accounts is on, and AccountNotFoundError otherwise; no
\* balance of an account is ever negative
C23_OverdraftRefused ==
    /\ \A t \in DOMAIN threads :
           ChargeExceeded(t) =>
               /\ RefusedCleanly(t)
               /\ threads[t].top.name = "charge" =>
                      threads[t].exc =
                          IF \/ services[threads[t].svc].auto
                             \/ has_account(threads[t].top_before, threads[t].top.b)
                          THEN "InsufficientBalanceError"
                          ELSE "AccountNotFoundError"
    /\ NoNegativeBalance

\* a payer that holds tokens was charged more than it holds
C23_Witness ==
    \E t \in DOMAIN threads :
        /\ ChargeExceeded(t)
        /\ threads[t].top_before.accounts[threads[t].top.a] > 0
        /\ threads[t].exc \in {"InsufficientBalanceError", "PaymentRequiredError"}

\* no call is under way on service s
AtRest(s) ==
    /\ services[s].pc = "open"
    /\ services[s].lock = 0
    /\ \A t \in DOMAIN threads :
           threads[t].svc = s => threads[t].pc \in {"idle", "returned"}

\* C29: after every operation of LedgerService, whether it returns or
\* raises, the accounts and transfers in the ledger file equal the accounts
\* and transfers the service holds in memory
C29_FileEqualsMemory ==
    \A s \in DOMAIN services :
        AtRest(s) => /\ ledger_file.exists
                     /\ ledger_file.state = services[s].state

RECURSIVE Replay(_, _, _)
\* the state the calls of h leave when they run one after the other from
\* state mem
Replay(h, mem, auto_create_accounts) ==
    IF h = << >> THEN mem
    ELSE Replay(Tail(h), run_call(mem, auto_create_accounts, Head(h).call).mem,
                auto_create_accounts)

\* C24: when several threads call one LedgerService, the balances and the
\* transfer list equal those of some serial order of the same calls, no
\* charge overdraws an account, and the file written last holds the final
\* state
C24_SerialAndSaved ==
    \A s \in DOMAIN services :
        AtRest(s) =>
            /\ services[s].state = Replay(history, services[s].initial, services[s].auto)
            /\ \A o \in DOMAIN services[s].state.accounts :
                   services[s].state.accounts[o] >= 0
            /\ ledger_file.state = services[s].state

\* the part of C24 the lock gives: the serial order and no overdraft
SerialOrder ==
    \A s \in DOMAIN services :
        AtRest(s) =>
            /\ services[s].state = Replay(history, services[s].initial, services[s].auto)
            /\ \A o \in DOMAIN services[s].state.accounts :
                   services[s].state.accounts[o] >= 0

\* the records of the charges and credits that were committed, in the order
\* they were committed
Committed ==
    LET done == SelectSeq(history, LAMBDA e : /\ e.call.name \in {"charge", "credit"}
                                               /\ e.exc = "none")
    IN  [i \in 1..Len(done) |->
            TransferRecord(IF done[i].call.name = "credit" THEN system_account
                           ELSE done[i].call.a,
                           IF done[i].call.name = "credit" THEN done[i].call.a
                           ELSE done[i].call.b,
                           done[i].call.n)]

\* C30: when two LedgerService objects are opened on one ledger file, a
\* credit or charge committed through one is reflected in the balances the
\* other reports, and is never erased from the file by a save of the other
C30_SharedFile ==
    (\A s \in DOMAIN services : AtRest(s)) =>
        /\ \A s1, s2 \in DOMAIN services : \A o \in Accounts :
               balance_of(services[s1].state, o) = balance_of(services[s2].state, o)
        /\ ledger_file.state.transfers = Committed

\* ------------------------------------------------------- the /scan-jobs handler
\* the transfer the handler's charge commits
JobTransfer ==
    TransferRecord(job.account, PROVIDER_ACCOUNT_ID,
                   estimate_cost_tokens(Len(expand_cidr(cidr, cfg.max_hosts)),
                                        Len(ports)))

\* run_scan was not called, no connection was attempted, no row was written
NothingScanned ==
    /\ rs_pc = "not_called"
    /\ tasks = << >>
    /\ results = << >>
    /\ call.op = "none"
    /\ db.rows = << >>

\* C28: in the /scan-jobs handler run_scan is invoked only after
\* ledger.charge has succeeded for the estimated cost; a request rejected
\* with 400 charges nothing; a request rejected with 400 or 402 runs no
\* probe and writes no scan row
C28_ChargeBeforeScan ==
    /\ rs_pc # "not_called" =>
           /\ services[1].state.transfers = <<JobTransfer>>
           /\ ledger_file.state.transfers = <<JobTransfer>>
           /\ balance_of(services[1].state, job.account)
                  = balance_of(services[1].initial, job.account) - job.cost
    /\ job.status = 400 =>
           /\ services[1].state = services[1].initial
           /\ ledger_file.state = services[1].initial
    /\ job.status \in {400, 402} => NothingScanned

\* a request was charged, its scan has probed a port and its rows are saved
C28_Witness ==
    /\ job.status = 200
    /\ services[1].state.transfers = <<JobTransfer>>
    /\ \E t \in TaskIds : tasks[t].probes > 0
    /\ db.rows # << >>

\* a request was rejected for no hosts; a request was rejected for tokens
Rejected400 == job.status = 400

Rejected402 ==
    /\ job.status = 402
    /\ job.cost > balance_of(services[1].initial, job.account)

====
